---- MODULE Spec2Model ----
(***************************************************************************)
(* A model of the reconciliation tool: the section reconciliation of       *)
(* reconcile.py, the settlement report parser, the header auto-detection   *)
(* and the column normalisation of processors.py.                          *)
(*                                                                         *)
(* Python strings are sequences of one-character strings, so that strip,   *)
(* upper, replace and the substring tests are computed character by        *)
(* character.  A float is a record [nan, v]: v is the value (amounts are   *)
(* counted in hundredths where they come from text) and nan marks the      *)
(* IEEE not-a-number a blank spreadsheet cell is read as.                  *)
(***************************************************************************)
EXTENDS Integers, Sequences, FiniteSets, TLC

(*************************** Python str methods ****************************)

LowerCase == <<"a", "b", "c", "d", "e", "f", "g", "h", "i", "j", "k", "l", "m",
               "n", "o", "p", "q", "r", "s", "t", "u", "v", "w", "x", "y", "z">>

UpperCase == <<"A", "B", "C", "D", "E", "F", "G", "H", "I", "J", "K", "L", "M",
               "N", "O", "P", "Q", "R", "S", "T", "U", "V", "W", "X", "Y", "Z">>

Digits == {"0", "1", "2", "3", "4", "5", "6", "7", "8", "9"}

UpperChar(c) ==
    IF \E i \in DOMAIN LowerCase : LowerCase[i] = c
    THEN UpperCase[CHOOSE i \in DOMAIN LowerCase : LowerCase[i] = c]
    ELSE c

LowerChar(c) ==
    IF \E i \in DOMAIN UpperCase : UpperCase[i] = c
    THEN LowerCase[CHOOSE i \in DOMAIN UpperCase : UpperCase[i] = c]
    ELSE c

\* s.upper()
upper(s) == [i \in 1..Len(s) |-> UpperChar(s[i])]

\* s.lower()
lower(s) == [i \in 1..Len(s) |-> LowerChar(s[i])]

\* s.strip(): leading and trailing blanks removed
strip(s) ==
    IF \A i \in 1..Len(s) : s[i] = " "
    THEN <<>>
    ELSE LET a == CHOOSE i \in 1..Len(s) :
                      s[i] # " " /\ \A j \in 1..(i - 1) : s[j] = " "
             b == CHOOSE i \in 1..Len(s) :
                      s[i] # " " /\ \A j \in (i + 1)..Len(s) : s[j] = " "
         IN  SubSeq(s, a, b)

\* s.startswith(p)
startswith(s, p) == Len(p) <= Len(s) /\ SubSeq(s, 1, Len(p)) = p

\* s.endswith(p)
endswith(s, p) == Len(p) <= Len(s) /\ SubSeq(s, Len(s) - Len(p) + 1, Len(s)) = p

\* p in s
contains(s, p) ==
    \E i \in 1..(Len(s) - Len(p) + 1) : SubSeq(s, i, i + Len(p) - 1) = p

\* s.replace(old, ""): every non-overlapping occurrence, left to right
RECURSIVE remove(_, _)
remove(s, old) ==
    IF Len(s) = 0 \/ Len(old) = 0 THEN s
    ELSE IF startswith(s, old)
         THEN remove(SubSeq(s, Len(old) + 1, Len(s)), old)
         ELSE <<s[1]>> \o remove(Tail(s), old)

(******************************* Python floats *****************************)

F(n) == [nan |-> FALSE, v |-> n]

NaN == [nan |-> TRUE, v |-> 0]

\* a == b on floats: a NaN equals nothing, itself included
FEq(a, b) == ~a.nan /\ ~b.nan /\ a.v = b.v

\* a - b on floats
FSub(a, b) == IF a.nan \/ b.nan THEN NaN ELSE F(a.v - b.v)

(******************************* Python dicts ******************************)
(* A dict is the sequence of its <<key, value>> pairs in insertion order,  *)
(* the order in which Python iterates it.                                  *)

DictKeys(d) == {d[i][1] : i \in DOMAIN d}

DictGet(d, k, default) ==
    IF k \in DictKeys(d)
    THEN d[CHOOSE i \in DOMAIN d : d[i][1] = k][2]
    ELSE default

\* d[k] = v: a key already present keeps its position
DictSet(d, k, v) ==
    IF k \in DictKeys(d)
    THEN [i \in DOMAIN d |-> IF d[i][1] = k THEN <<k, v>> ELSE d[i]]
    ELSE Append(d, <<k, v>>)

(****************************** reconcile.py *******************************)

S_INTERCHANGE == <<"I", "N", "T", "E", "R", "C", "H", "A", "N", "G", "E">>
S_REIMBURSEMENT == <<"R", "E", "I", "M", "B", "U", "R", "S", "E", "M", "E", "N", "T">>
S_REIMBURSEMENTFEES == <<"R", "E", "I", "M", "B", "U", "R", "S", "E", "M", "E", "N", "T", "F", "E", "E", "S">>
S_VISA_CHARGES == <<"V", "I", "S", "A", " ", "C", "H", "A", "R", "G", "E", "S">>
S_VISACHARGES == <<"V", "I", "S", "A", "C", "H", "A", "R", "G", "E", "S">>
S_TOTAL == <<"T", "O", "T", "A", "L">>
S_NETSETTLEMENT == <<"N", "E", "T", "S", "E", "T", "T", "L", "E", "M", "E", "N", "T">>

Interchange == <<"I", "n", "t", "e", "r", "c", "h", "a", "n", "g", "e">>
Reimbursement == <<"R", "e", "i", "m", "b", "u", "r", "s", "e", "m", "e", "n", "t">>
VisaCharges == <<"V", "i", "s", "a", "C", "h", "a", "r", "g", "e", "s">>
Total == <<"T", "o", "t", "a", "l">>

SECTION_MAP ==
    << <<S_INTERCHANGE, Interchange>>,
       <<S_REIMBURSEMENT, Reimbursement>>,
       <<S_REIMBURSEMENTFEES, Reimbursement>>,
       <<S_VISA_CHARGES, VisaCharges>>,
       <<S_VISACHARGES, VisaCharges>>,
       <<S_TOTAL, Total>>,
       <<S_NETSETTLEMENT, Total>> >>

valid_sections ==
    {S_INTERCHANGE, S_REIMBURSEMENT, S_REIMBURSEMENTFEES, S_VISACHARGES,
     S_NETSETTLEMENT, S_TOTAL}

Fields == <<"DR", "CR", "Net">>

Entry(dr, cr, net) == ("DR" :> dr) @@ ("CR" :> cr) @@ ("Net" :> net)

ZeroEntry == Entry(F(0), F(0), F(0))

\* the label of a sheet row: the first cell as text, stripped; a blank cell
\* reads as "nan" and is labelled "Total"
RowLabel(cell) ==
    LET label == strip(cell)
    IN  IF lower(label) = <<"n", "a", "n">> THEN Total ELSE label

\* extract_values: one entry per row label, a later row replacing an earlier
RECURSIVE extract_values_from(_, _)
extract_values_from(rows, extracted) ==
    IF rows = <<>> THEN extracted
    ELSE extract_values_from(
             Tail(rows),
             DictSet(extracted, RowLabel(rows[1].label),
                     Entry(rows[1].DR, rows[1].CR, rows[1].Net)))

extract_values(sheet) == extract_values_from(sheet, <<>>)

\* faulty variant: an unknown section is filed under its upper-cased form
SectionKeyUpper(section) ==
    DictGet(SECTION_MAP, remove(upper(section), <<" ">>),
            remove(upper(section), <<" ">>))

\* the key normalize_sections files a section under
SectionKey(section) ==
    DictGet(SECTION_MAP, remove(upper(section), <<" ">>), section)

RECURSIVE normalize_from(_, _)
normalize_from(data, normalized) ==
    IF data = <<>> THEN normalized
    ELSE normalize_from(
             Tail(data),
             DictSet(normalized, SectionKey(data[1][1]), data[1][2]))

\* faulty variant: of the keys with one result key the first one's entry stays
normalize_sectionsFirstKept(data) ==
    normalize_from([i \in DOMAIN data |-> data[Len(data) + 1 - i]], <<>>)

normalize_sections(data) == normalize_from(data, <<>>)

\* vals.get(field, 0.0)
FieldGet(vals, field) == IF field \in DOMAIN vals THEN vals[field] ELSE F(0)

\* faulty variant: values one hundredth apart count as equal
StatusWithTolerance(bank_val, visa_val) ==
    IF /\ ~bank_val.nan
       /\ ~visa_val.nan
       /\ bank_val.v - visa_val.v \in {0 - 1, 0, 1}
    THEN "Match" ELSE "Mismatch"

Status(bank_val, visa_val) ==
    IF FEq(bank_val, visa_val) THEN "Match" ELSE "Mismatch"

\* faulty variant: the difference is reported without its sign
RecordAbsDifference(section, field, bank_vals, visa_vals) ==
    LET bank_val == FieldGet(bank_vals, field)
        visa_val == FieldGet(visa_vals, field)
        diff == FSub(bank_val, visa_val)
    IN  ("Section" :> section) @@ ("Check" :> field) @@
        ("Bank Statement" :> bank_val) @@ ("Visa Summary" :> visa_val) @@
        ("Status" :> Status(bank_val, visa_val)) @@
        ("Difference" :> IF ~diff.nan /\ diff.v < 0 THEN F(0 - diff.v) ELSE diff)

Record(section, field, bank_vals, visa_vals) ==
    LET bank_val == FieldGet(bank_vals, field)
        visa_val == FieldGet(visa_vals, field)
    IN  ("Section" :> section) @@ ("Check" :> field) @@
        ("Bank Statement" :> bank_val) @@ ("Visa Summary" :> visa_val) @@
        ("Status" :> Status(bank_val, visa_val)) @@
        ("Difference" :> FSub(bank_val, visa_val))

\* the three records of one section, DR, CR, Net
SectionRecords(section, bank, visa) ==
    LET bank_vals == DictGet(bank, section, ZeroEntry)
        visa_vals == DictGet(visa, section, ZeroEntry)
    IN  [i \in 1..Len(Fields) |-> Record(section, Fields[i], bank_vals, visa_vals)]

(************************* reconcile.py: text report ************************)

DigitSeq == <<"0", "1", "2", "3", "4", "5", "6", "7", "8", "9">>

DigitVal(c) == (CHOOSE i \in DOMAIN DigitSeq : DigitSeq[i] = c) - 1

AllDigits(s) == \A i \in DOMAIN s : s[i] \in Digits

\* the integer a run of decimal digits denotes
RECURSIVE IntVal(_)
IntVal(s) ==
    IF s = <<>> THEN 0
    ELSE 10 * IntVal(SubSeq(s, 1, Len(s) - 1)) + DigitVal(s[Len(s)])

\* the hundredths a fraction of at most two digits denotes
FracVal(s) ==
    IF Len(s) = 0 THEN 0
    ELSE IF Len(s) = 1 THEN 10 * DigitVal(s[1])
    ELSE IntVal(s)

\* float(s) for a decimal literal: blanks around it, an optional sign, then
\* digits, digits "." [digits] or "." digits; ok is FALSE where float raises
\* ValueError, v is the value in hundredths
PyFloat(s) ==
    LET t == strip(s)
        signed == t # <<>> /\ t[1] \in {"-", "+"}
        u == IF signed THEN Tail(t) ELSE t
        dots == {i \in DOMAIN u : u[i] = "."}
        p == CHOOSE i \in dots : TRUE
        ip == IF dots = {} THEN u ELSE SubSeq(u, 1, p - 1)
        fp == IF dots = {} THEN <<>> ELSE SubSeq(u, p + 1, Len(u))
        ok == /\ Cardinality(dots) <= 1
              /\ AllDigits(ip)
              /\ AllDigits(fp)
              /\ Len(ip) + Len(fp) >= 1
        mag == 100 * IntVal(ip) + FracVal(fp)
    IN  IF ~ok THEN [ok |-> FALSE, v |-> 0]
        ELSE [ok |-> TRUE, v |-> IF signed /\ t[1] = "-" THEN 0 - mag ELSE mag]

DB == <<"D", "B">>
CR == <<"C", "R">>

\* value[:-2]
DropSuffix(value) == SubSeq(value, 1, Len(value) - 2)

\* faulty variant: the CR suffix is cut off but the sign stays positive
parse_amount_unsigned(value) ==
    IF value = <<>> \/ strip(value) = <<>>
    THEN [raised |-> FALSE, ret |-> 0]
    ELSE LET cleaned == strip(remove(value, <<",">>))
             number == IF endswith(cleaned, DB) \/ endswith(cleaned, CR)
                       THEN DropSuffix(cleaned) ELSE cleaned
             f == PyFloat(number)
         IN  [raised |-> FALSE, ret |-> IF f.ok THEN f.v ELSE 0]

\* parse_amount: what the call does (raised: an exception leaves the call)
\* and the hundredths it returns
parse_amount(value) ==
    IF value = <<>> \/ strip(value) = <<>>
    THEN [raised |-> FALSE, ret |-> 0]
    ELSE LET cleaned == strip(remove(value, <<",">>))
             isDB == endswith(cleaned, DB)
             isCR == ~isDB /\ endswith(cleaned, CR)
             number == IF isDB \/ isCR THEN DropSuffix(cleaned) ELSE cleaned
             sign == IF isCR THEN 0 - 1 ELSE 1
             f == PyFloat(number)
         IN  IF f.ok
             THEN [raised |-> FALSE, ret |-> f.v * sign]
             ELSE [raised |-> FALSE, ret |-> 0]       \* except ValueError

W_TOTAL == <<"T", "O", "T", "A", "L">>
W_AMOUNT == <<"A", "M", "O", "U", "N", "T">>
W_VALUE == <<"V", "A", "L", "U", "E">>
NET_SETTLEMENT_AMOUNT ==
    <<"N", "E", "T", " ", "S", "E", "T", "T", "L", "E", "M", "E", "N", "T", " ",
      "A", "M", "O", "U", "N", "T">>

\* re.sub(r"[\d,\.]+.*", "", line): the line up to its first digit, comma or
\* full stop
BeforeNumbers(line) ==
    LET hits == {i \in DOMAIN line : line[i] \in Digits \cup {",", "."}}
    IN  IF hits = {} THEN line
        ELSE SubSeq(line, 1, (CHOOSE i \in hits : \A j \in hits : i <= j) - 1)

IsTotalLine(line) ==
    \/ startswith(upper(line), W_TOTAL)
    \/ contains(upper(line), NET_SETTLEMENT_AMOUNT)

\* the section name of a stripped, non-empty line (reconcile.py 69-78)
section_name(line) ==
    LET text == strip(BeforeNumbers(line))
        name == IF IsTotalLine(line)
                THEN LET cut == strip(remove(remove(remove(text, W_TOTAL),
                                                    W_AMOUNT), W_VALUE))
                     IN  IF cut = <<>> THEN W_TOTAL ELSE cut
                ELSE text
    IN  upper(remove(name, <<" ">>))

\* the length of the run of digits and commas that starts at position i
RECURSIVE RunLen(_, _)
RunLen(line, i) ==
    IF i > Len(line) \/ line[i] \notin Digits \cup {","} THEN 0
    ELSE 1 + RunLen(line, i + 1)

\* where a match of [\d,]+\.\d{2}(?:DB|CR)? that starts at i ends, 0 if none
MatchEnd(line, i) ==
    LET n == RunLen(line, i)
        d == i + n
    IN  IF /\ n >= 1
           /\ d + 2 <= Len(line)
           /\ line[d] = "."
           /\ line[d + 1] \in Digits
           /\ line[d + 2] \in Digits
        THEN IF /\ d + 4 <= Len(line)
                /\ SubSeq(line, d + 3, d + 4) \in {DB, CR}
             THEN d + 4
             ELSE d + 2
        ELSE 0

\* re.findall(r"[\d,]+\.\d{2}(?:DB|CR)?", line) from position i on
RECURSIVE findall(_, _)
findall(line, i) ==
    IF i > Len(line) THEN <<>>
    ELSE LET e == MatchEnd(line, i)
         IN  IF e = 0 THEN findall(line, i + 1)
             ELSE <<SubSeq(line, i, e)>> \o findall(line, e + 1)

\* faulty variant: the first number is taken for DR and the second for CR
TxtEntryDebitFirst(numbers) ==
    LET dr == parse_amount(numbers[1]).ret
        cr == IF Len(numbers) > 1 THEN parse_amount(numbers[2]).ret ELSE 0
        net == IF Len(numbers) > 2 THEN parse_amount(numbers[3]).ret ELSE dr - cr
    IN  Entry(dr, cr, net)

\* reconcile.py 85-89
TxtEntry(numbers) ==
    LET cr == parse_amount(numbers[1]).ret
        dr == IF Len(numbers) > 1 THEN parse_amount(numbers[2]).ret ELSE 0
        net == IF Len(numbers) > 2 THEN parse_amount(numbers[3]).ret ELSE dr - cr
    IN  Entry(dr, cr, net)

\* faulty variant: every section name is let through
AcceptedAny(name) == TRUE

\* reconcile.py 80
Accepted(name) == name \in valid_sections

\* the body of the loop of extract_from_txt for one line of the file
ProcessLine(data, raw) ==
    LET line == strip(raw)
    IN  IF line = <<>> THEN data
        ELSE IF ~Accepted(section_name(line)) THEN data
        ELSE LET numbers == findall(line, 1)
             IN  IF numbers = <<>> THEN data
                 ELSE DictSet(data, section_name(line), TxtEntry(numbers))

(******************************* processors.py *****************************)

HEADER_DETECTION ==
    << <<"transaction_excel", << <<"t", "r", "a", "n", "s", "a", "c", "t">>, <<"r", "r", "n">> >> >>,
       <<"bank_excel", << <<"d", "r">>, <<"c", "r">>, <<"n", "e", "t">> >> >> >>

\* faulty variant: one pattern found in the row is enough
RowMatchesAnyPattern(row, detection_patterns) ==
    LET row_values == [c \in DOMAIN row |-> lower(strip(row[c]))]
    IN  \E p \in DOMAIN detection_patterns :
            \E c \in DOMAIN row_values :
                contains(row_values[c], detection_patterns[p])

\* processors.py 42-43: every pattern is in some cell of the row
RowMatches(row, detection_patterns) ==
    LET row_values == [c \in DOMAIN row |-> lower(strip(row[c]))]
    IN  \A p \in DOMAIN detection_patterns :
            \E c \in DOMAIN row_values :
                contains(row_values[c], detection_patterns[p])

COLUMN_MAPPINGS ==
    << [col_type |-> "transaction_id",
        patterns |-> << <<"t", "r", "a", "n", "s", "a", "c", "t", "i", "o", "n">>,
                      <<"t", "r", "a", "n", "s", "a", "c", "t">>,
                      <<"t", "x", "n">>,
                      <<"t", "r", "a", "n", "s", "_", "i", "d">>,
                      <<"i", "d">> >>,
        target |-> <<"T", "r", "a", "n", "s", "a", "c", "t", "i", "o", "n", " ", "I", "D">>],
       [col_type |-> "rrn",
        patterns |-> << <<"r", "r", "n">>,
                      <<"r", "e", "f", "e", "r", "e", "n", "c", "e">>,
                      <<"r", "e", "f", "_", "n", "o">>,
                      <<"r", "e", "f", "_", "n", "u", "m", "b", "e", "r">> >>,
        target |-> <<"R", "R", "N", " ", "N", "o">>],
       [col_type |-> "merchant",
        patterns |-> << <<"m", "e", "r", "c", "h", "a", "n", "t">>,
                      <<"s", "h", "o", "p">>,
                      <<"s", "t", "o", "r", "e">>,
                      <<"b", "u", "s", "i", "n", "e", "s", "s">> >>,
        target |-> <<"M", "e", "r", "c", "h", "a", "n", "t">>],
       [col_type |-> "mcc",
        patterns |-> << <<"m", "c", "c">>,
                      <<"m", "e", "r", "c", "h", "a", "n", "t", "_", "c", "o", "d", "e">>,
                      <<"c", "a", "t", "e", "g", "o", "r", "y", "_", "c", "o", "d", "e">> >>,
        target |-> <<"M", "C", "C", " ", "C", "o", "d", "e">>],
       [col_type |-> "amount",
        patterns |-> << <<"a", "m", "o", "u", "n", "t">>,
                      <<"v", "a", "l", "u", "e">>,
                      <<"s", "u", "m">>,
                      <<"t", "o", "t", "a", "l">>,
                      <<"a", "m", "t">> >>,
        target |-> <<"A", "m", "o", "u", "n", "t">>],
       [col_type |-> "interchange",
        patterns |-> << <<"i", "n", "t", "e", "r", "c", "h", "a", "n", "g", "e">>,
                      <<"f", "e", "e">>,
                      <<"c", "o", "m", "m", "i", "s", "s", "i", "o", "n">> >>,
        target |-> <<"I", "n", "t", "e", "r", "c", "h", "a", "n", "g", "e">>],
       [col_type |-> "dr",
        patterns |-> << <<"d", "r">>,
                      <<"d", "e", "b", "i", "t">>,
                      <<"d", "e", "b", "i", "t", "_", "a", "m", "o", "u", "n", "t">> >>,
        target |-> <<"D", "R">>],
       [col_type |-> "cr",
        patterns |-> << <<"c", "r">>,
                      <<"c", "r", "e", "d", "i", "t">>,
                      <<"c", "r", "e", "d", "i", "t", "_", "a", "m", "o", "u", "n", "t">> >>,
        target |-> <<"C", "R">>],
       [col_type |-> "net",
        patterns |-> << <<"n", "e", "t">>,
                      <<"n", "e", "t", "_", "a", "m", "o", "u", "n", "t">>,
                      <<"b", "a", "l", "a", "n", "c", "e">> >>,
        target |-> <<"N", "e", "t">>] >>


\* faulty variant: underscores are kept in the cleaned label
CleanColumnKeepUnderscore(col) == remove(lower(strip(col)), <<" ">>)

\* processors.py 24
CleanColumn(col) == remove(remove(lower(strip(col)), <<" ">>), <<"_">>)

\* processors.py 28
MappingMatches(mapping, clean_col) ==
    \E p \in DOMAIN mapping.patterns : contains(clean_col, mapping.patterns[p])

\* df.rename(columns=col_map)
rename(columns, col_map) ==
    [i \in DOMAIN columns |-> DictGet(col_map, columns[i], columns[i])]

(***************************** rate_tool_app.py ****************************)
(* Rates and amounts are counted in hundredths.  A count given to the      *)
(* calculator is a record [num, v]: num is FALSE for a value arithmetic    *)
(* raises TypeError on (None, a text cell).                                *)

Whitespace == {" ", "\t", "\n"}

\* s.strip() where the text may hold tabs and line breaks
strip_whitespace(s) ==
    IF \A i \in 1..Len(s) : s[i] \in Whitespace
    THEN <<>>
    ELSE LET a == CHOOSE i \in 1..Len(s) :
                      s[i] \notin Whitespace /\ \A j \in 1..(i - 1) : s[j] \in Whitespace
             b == CHOOSE i \in 1..Len(s) :
                      s[i] \notin Whitespace /\ \A j \in (i + 1)..Len(s) : s[j] \in Whitespace
         IN  SubSeq(s, a, b)

\* s.isdigit()
isdigit(s) == s # <<>> /\ \A i \in DOMAIN s : s[i] \in Digits

\* s.split("\n")
RECURSIVE split_lines(_)
split_lines(s) ==
    LET breaks == {i \in DOMAIN s : s[i] = "\n"}
    IN  IF breaks = {} THEN <<s>>
        ELSE LET b == CHOOSE i \in breaks : \A j \in breaks : i <= j
             IN  <<SubSeq(s, 1, b - 1)>> \o split_lines(SubSeq(s, b + 1, Len(s)))

\* the length of the run of digits that starts at position i
RECURSIVE DigitRun(_, _)
DigitRun(s, i) ==
    IF i > Len(s) \/ s[i] \notin Digits THEN 0 ELSE 1 + DigitRun(s, i + 1)

\* the text \d+(?:\.\d+)? matches at position i (a digit)
NumberAt(s, i) ==
    LET n == DigitRun(s, i)
        f == IF i + n <= Len(s) /\ s[i + n] = "." THEN DigitRun(s, i + n + 1) ELSE 0
    IN  SubSeq(s, i, i + n - 1 + (IF f > 0 THEN f + 1 ELSE 0))

\* float(text) of such a match, in hundredths
NumberValue(text) ==
    LET dots == {i \in DOMAIN text : text[i] = "."}
        p == CHOOSE i \in dots : TRUE
    IN  IF dots = {} THEN 100 * IntVal(text)
        ELSE 100 * IntVal(SubSeq(text, 1, p - 1)) + FracVal(SubSeq(text, p + 1, Len(text)))

\* re.search(r'(\d+(?:\.\d+)?)', s): <<>> when nothing matches, else <<group 1>>
search_number(s) ==
    LET hits == {i \in DOMAIN s : s[i] \in Digits}
    IN  IF hits = {} THEN <<>>
        ELSE <<NumberAt(s, CHOOSE i \in hits : \A j \in hits : i <= j)>>

\* re.search(r'(\d+)k', s): the first run of digits that a k follows
search_threshold(s) ==
    LET hits == {i \in DOMAIN s :
                    /\ s[i] \in Digits
                    /\ i + DigitRun(s, i) <= Len(s)
                    /\ s[i + DigitRun(s, i)] = "k"}
    IN  IF hits = {} THEN <<>>
        ELSE LET i == CHOOSE h \in hits : \A j \in hits : h <= j
             IN  <<SubSeq(s, i, i + DigitRun(s, i) - 1)>>

\* where \s* ends when it starts at position i
RECURSIVE SkipWhitespace(_, _)
SkipWhitespace(s, i) ==
    IF i <= Len(s) /\ s[i] \in Whitespace THEN SkipWhitespace(s, i + 1) ELSE i

\* where the number of \*\s*(?:Rs|rs|\$)?(\d+(?:\.\d+)?) begins when the
\* star is at position i, 0 when the pattern does not match there
StarNumberAt(s, i) ==
    LET j == SkipWhitespace(s, i + 1)
        k == IF j + 1 <= Len(s) /\ SubSeq(s, j, j + 1) \in {<<"R", "s">>, <<"r", "s">>} THEN j + 2
             ELSE IF j <= Len(s) /\ s[j] = "$" THEN j + 1
             ELSE j
    IN  IF k <= Len(s) /\ s[k] \in Digits THEN k ELSE 0

\* re.search(r'\*\s*(?:Rs|rs|\$)?(\d+(?:\.\d+)?)', s)
search_star_number(s) ==
    LET hits == {i \in DOMAIN s : s[i] = "*" /\ StarNumberAt(s, i) > 0}
    IN  IF hits = {} THEN <<>>
        ELSE <<NumberAt(s, StarNumberAt(s, CHOOSE i \in hits : \A j \in hits : i <= j))>>

\* a count or an amount arithmetic works on, and one it raises TypeError on
Num(n) == [num |-> TRUE, v |-> n]

NotNumber == [num |-> FALSE, v |-> 0]

\* the dict a calculation returns
FeeRecord(amount, method, formula, currency) ==
    [calculated_amount |-> amount, calculation_method |-> method,
     formula_used |-> formula, currency |-> currency]

\* the dict returned after a failed extraction or calculation
FeeError(method, formula) ==
    [calculated_amount |-> 0, calculation_method |-> <<method>>,
     formula_used |-> formula]

\* faulty variant: the threshold is taken as it stands, not in thousands
calculate_tiered_card_fee_units(rate_formula, card_count) ==
    LET first_rate_match == search_number(rate_formula)
        threshold_match == search_threshold(lower(rate_formula))
        lines == split_lines(rate_formula)
        second_rate_match == IF Len(lines) > 1 THEN search_number(lines[2]) ELSE <<>>
        second_rate == IF second_rate_match # <<>>
                       THEN NumberValue(second_rate_match[1]) ELSE 0
    IN  IF first_rate_match # <<>> /\ threshold_match # <<>> /\ card_count.num
        THEN LET first_rate == NumberValue(first_rate_match[1])
                 threshold == IntVal(threshold_match[1])
             IN  IF card_count.v <= threshold
                 THEN FeeRecord(card_count.v * first_rate,
                                <<"All {} cards at ${} each", card_count.v, first_rate>>,
                                rate_formula, "$")
                 ELSE FeeRecord(threshold * first_rate
                                    + (card_count.v - threshold) * second_rate,
                                <<"First {} cards at ${}, remaining {} cards at ${}",
                                  threshold, first_rate, card_count.v - threshold,
                                  second_rate>>,
                                rate_formula, "$")
        ELSE FeeError("Error in tiered calculation", rate_formula)

\* rate_tool_app.py 461-518; comparing a count that is no number with the
\* threshold raises TypeError, which the function catches
calculate_tiered_card_fee(rate_formula, card_count) ==
    LET first_rate_match == search_number(rate_formula)
        threshold_match == search_threshold(lower(rate_formula))
        lines == split_lines(rate_formula)
        second_rate_match == IF Len(lines) > 1 THEN search_number(lines[2]) ELSE <<>>
        second_rate == IF second_rate_match # <<>>
                       THEN NumberValue(second_rate_match[1]) ELSE 0
    IN  IF first_rate_match # <<>> /\ threshold_match # <<>> /\ card_count.num
        THEN LET first_rate == NumberValue(first_rate_match[1])
                 threshold == IntVal(threshold_match[1]) * 1000
             IN  IF card_count.v <= threshold
                 THEN FeeRecord(card_count.v * first_rate,
                                <<"All {} cards at ${} each", card_count.v, first_rate>>,
                                rate_formula, "$")
                 ELSE FeeRecord(threshold * first_rate
                                    + (card_count.v - threshold) * second_rate,
                                <<"First {} cards at ${}, remaining {} cards at ${}",
                                  threshold, first_rate, card_count.v - threshold,
                                  second_rate>>,
                                rate_formula, "$")
        ELSE FeeError("Error in tiered calculation", rate_formula)

\* faulty variant: the rupee is written INR
CurrencyOfINR(rate_formula) ==
    IF contains(lower(rate_formula), <<"r", "s">>) THEN "INR" ELSE "$"

\* "Rs" if 'rs' in rate_formula.lower() else "$"
CurrencyOf(rate_formula) ==
    IF contains(lower(rate_formula), <<"r", "s">>) THEN "Rs" ELSE "$"

\* faulty variant: a count that is no number is taken for zero
calculate_per_transaction_fee_or_zero(rate_formula, transaction_count) ==
    LET rate_match == search_number(rate_formula)
    IN  IF rate_match # <<>>
        THEN LET rate == NumberValue(rate_match[1])
                 count == IF transaction_count.num THEN transaction_count.v ELSE 0
             IN  FeeRecord(count * rate,
                           <<"{} transactions x {}{}", count,
                             CurrencyOf(rate_formula), rate>>,
                           rate_formula, CurrencyOf(rate_formula))
        ELSE FeeError("Error", rate_formula)

\* rate_tool_app.py 520-540
calculate_per_transaction_fee(rate_formula, transaction_count) ==
    LET rate_match == search_number(rate_formula)
    IN  IF rate_match # <<>> /\ transaction_count.num
        THEN LET rate == NumberValue(rate_match[1])
             IN  FeeRecord(transaction_count.v * rate,
                           <<"{} transactions x {}{}", transaction_count.v,
                             CurrencyOf(rate_formula), rate>>,
                           rate_formula, CurrencyOf(rate_formula))
        ELSE FeeError("Error", rate_formula)

\* faulty variant: the currency is always the dollar
calculate_per_dispute_fee_dollar(rate_formula, dispute_count) ==
    LET rate_match == search_number(rate_formula)
    IN  IF rate_match # <<>> /\ dispute_count.num
        THEN LET rate == NumberValue(rate_match[1])
             IN  FeeRecord(dispute_count.v * rate,
                           <<"{} disputes x {}{}", dispute_count.v, "$", rate>>,
                           rate_formula, "$")
        ELSE FeeError("Error", rate_formula)

\* rate_tool_app.py 542-562
calculate_per_dispute_fee(rate_formula, dispute_count) ==
    LET rate_match == search_number(rate_formula)
    IN  IF rate_match # <<>> /\ dispute_count.num
        THEN LET rate == NumberValue(rate_match[1])
             IN  FeeRecord(dispute_count.v * rate,
                           <<"{} disputes x {}{}", dispute_count.v,
                             CurrencyOf(rate_formula), rate>>,
                           rate_formula, CurrencyOf(rate_formula))
        ELSE FeeError("Error", rate_formula)

\* rate_tool_app.py 564-584
calculate_transaction_volume_fee(rate_formula, transaction_count) ==
    LET rate_match == search_number(rate_formula)
    IN  IF rate_match # <<>> /\ transaction_count.num
        THEN LET rate == NumberValue(rate_match[1])
             IN  FeeRecord(transaction_count.v * rate,
                           <<"{} transactions x {}{}", transaction_count.v, "$", rate>>,
                           rate_formula, "$")
        ELSE FeeError("Error", rate_formula)

\* rate_tool_app.py 586-613
calculate_transaction_amount_fee(rate_formula, transaction_amount) ==
    LET star_match == search_star_number(rate_formula)
        rate_match == IF star_match # <<>> THEN star_match
                      ELSE search_number(rate_formula)
    IN  IF rate_match # <<>> /\ transaction_amount.num
        THEN LET rate == NumberValue(rate_match[1])
             IN  FeeRecord(transaction_amount.v * rate,
                           <<"${} x {}", transaction_amount.v, rate>>,
                           rate_formula, CurrencyOf(rate_formula))
        ELSE FeeError("Error", rate_formula)

\* faulty variant: the per dispute test comes before the per transaction test
FormulaKindDisputeFirst(rate_formula) ==
    LET l == lower(rate_formula)
    IN  IF contains(l, <<"f", "i", "r", "s", "t">>) /\ contains(l, <<"t", "h", "e", "r", "e", "a", "f", "t", "e", "r">>) THEN "tiered"
        ELSE IF contains(l, <<"p", "e", "r", " ", "d", "i", "s", "p", "u", "t", "e">>) THEN "per dispute"
        ELSE IF contains(l, <<"p", "e", "r", " ", "t", "r", "a", "n", "s", "a", "c", "t", "i", "o", "n">>) THEN "per transaction"
        ELSE IF contains(l, <<"n", "o", " ", "o", "f", " ", "t", "r", "a", "n">>) /\ contains(rate_formula, <<"$">>)
             THEN "transaction volume"
        ELSE IF contains(l, <<"a", "m", "o", "u", "n", "t", " ", "o", "f", " ", "t", "r", "a", "n">>) \/ contains(l, <<"a", "m", "o", "u", "t", " ", "o", "f", " ", "t", "r", "a", "n">>)
             THEN "transaction amount"
        ELSE IF isdigit(rate_formula) THEN "fixed"
        ELSE "unknown"

\* rate_tool_app.py 416-445: the branch the trimmed formula takes
FormulaKind(rate_formula) ==
    LET l == lower(rate_formula)
    IN  IF contains(l, <<"f", "i", "r", "s", "t">>) /\ contains(l, <<"t", "h", "e", "r", "e", "a", "f", "t", "e", "r">>) THEN "tiered"
        ELSE IF contains(l, <<"p", "e", "r", " ", "t", "r", "a", "n", "s", "a", "c", "t", "i", "o", "n">>) THEN "per transaction"
        ELSE IF contains(l, <<"p", "e", "r", " ", "d", "i", "s", "p", "u", "t", "e">>) THEN "per dispute"
        ELSE IF contains(l, <<"n", "o", " ", "o", "f", " ", "t", "r", "a", "n">>) /\ contains(rate_formula, <<"$">>)
             THEN "transaction volume"
        ELSE IF contains(l, <<"a", "m", "o", "u", "n", "t", " ", "o", "f", " ", "t", "r", "a", "n">>) \/ contains(l, <<"a", "m", "o", "u", "t", " ", "o", "f", " ", "t", "r", "a", "n">>)
             THEN "transaction amount"
        ELSE IF isdigit(rate_formula) THEN "fixed"
        ELSE "unknown"

\* rate_tool_app.py 436-443 and 453-459: float() of the formula, and the
\* handler of calculate_fee_amount if it raises
FixedAmount(rate_formula) ==
    LET f == PyFloat(rate_formula)
    IN  IF f.ok
        THEN FeeRecord(f.v, <<"Fixed Amount">>, rate_formula, "$")
        ELSE [calculated_amount |-> 0, calculation_method |-> <<"Error">>,
              formula_used |-> rate_formula, error |-> "ValueError"]

\* rate_tool_app.py 445-451
UnknownFormula(rate_formula) ==
    [calculated_amount |-> 0, calculation_method |-> <<"Unknown Formula">>,
     formula_used |-> rate_formula, error |-> "Could not parse rate formula"]

\* rate_tool_app.py 399-459: raised tells whether an exception leaves the
\* call, ret is the dict returned
calculate_fee_amount(formula, card_count, transaction_count, transaction_amount) ==
    LET rate_formula == strip_whitespace(formula)
        kind == FormulaKind(rate_formula)
    IN  [raised |-> FALSE,
         ret |-> CASE kind = "tiered" ->
                          calculate_tiered_card_fee(rate_formula, card_count)
                   [] kind = "per transaction" ->
                          calculate_per_transaction_fee(rate_formula, transaction_count)
                   [] kind = "per dispute" ->
                          calculate_per_dispute_fee(rate_formula, transaction_count)
                   [] kind = "transaction volume" ->
                          calculate_transaction_volume_fee(rate_formula, transaction_count)
                   [] kind = "transaction amount" ->
                          calculate_transaction_amount_fee(rate_formula, transaction_amount)
                   [] kind = "fixed" -> FixedAmount(rate_formula)
                   [] OTHER -> UnknownFormula(rate_formula)]

(************************** rate_tool_integration.py ***********************)

\* \w of the regular expressions
\* the characters of \w
WordChars ==
    {LowerCase[i] : i \in DOMAIN LowerCase} \cup {UpperCase[i] : i \in DOMAIN UpperCase}
        \cup Digits \cup {"_"}

IsWordChar(c) == c \in WordChars

\* faulty variant: the plural fees is removed too
StopWordsAndFees ==
    {<<"f", "e", "e">>, <<"f", "e", "e", "s">>, <<"c", "h", "a", "r", "g", "e">>, <<"c", "o", "s", "t">>, <<"a", "m", "o", "u", "n", "t">>, <<"t", "o", "t", "a", "l">>, <<"v", "a", "l", "u", "e">>}

StopWords ==
    {<<"f", "e", "e">>, <<"c", "h", "a", "r", "g", "e">>, <<"c", "o", "s", "t">>, <<"a", "m", "o", "u", "n", "t">>, <<"t", "o", "t", "a", "l">>, <<"v", "a", "l", "u", "e">>}

\* \b(word)\b matches at position i
WordAt(s, i, word) ==
    /\ i + Len(word) - 1 <= Len(s)
    /\ s[i] = word[1]
    /\ SubSeq(s, i, i + Len(word) - 1) = word
    /\ i = 1 \/ ~IsWordChar(s[i - 1])
    /\ i + Len(word) > Len(s) \/ ~IsWordChar(s[i + Len(word)])

\* re.sub(r'\b(fee|charge|cost|amount|total|value)\b', '', s) from position i
RECURSIVE remove_stop_words(_, _)
remove_stop_words(s, i) ==
    IF i > Len(s) THEN <<>>
    ELSE IF \E w \in StopWords : WordAt(s, i, w)
         THEN remove_stop_words(s, i + Len(CHOOSE w \in StopWords : WordAt(s, i, w)))
         ELSE <<s[i]>> \o remove_stop_words(s, i + 1)

KeptChar(c) == IsWordChar(c) \/ c \in Whitespace

\* re.sub(r'[^\w\s]', '', s)
remove_special(s) == SelectSeq(s, KeptChar)

\* s.split(): the runs of characters between whitespace
RECURSIVE split(_)
split(s) ==
    LET t == strip_whitespace(s)
        gaps == {i \in DOMAIN t : t[i] \in Whitespace}
    IN  IF t = <<>> THEN <<>>
        ELSE IF gaps = {} THEN <<t>>
        ELSE LET g == CHOOSE i \in gaps : \A j \in gaps : i <= j
             IN  <<SubSeq(t, 1, g - 1)>> \o split(SubSeq(t, g + 1, Len(t)))

\* " ".join(words)
RECURSIVE join(_)
join(words) ==
    IF words = <<>> THEN <<>>
    ELSE IF Len(words) = 1 THEN words[1]
    ELSE words[1] \o <<" ">> \o join(Tail(words))

\* rate_tool_integration.py 245-250; re.sub(r'\s+', ' ', s).strip() leaves
\* the words of s joined by single blanks
normalize_fee_name(name) ==
    LET lowered == SubSeq(lower(name), 1, Len(name))
    IN  join(split(remove_special(remove_stop_words(lowered, 1))))

\* the first invoice fee whose normalized name equals that of calc_fee, as
\* <<fee>>, or <<>> (rate_tool_integration.py 254-257)
ExactMatch(calc_fee, invoice_fees) ==
    LET hits == {i \in DOMAIN invoice_fees :
                    normalize_fee_name(calc_fee) = normalize_fee_name(invoice_fees[i])}
    IN  IF hits = {} THEN <<>>
        ELSE <<invoice_fees[CHOOSE i \in hits : \A j \in hits : i <= j]>>

\* rate_tool_integration.py 253-257
RECURSIVE exact_matches(_, _, _)
exact_matches(calculated_fees, invoice_fees, matches) ==
    IF calculated_fees = <<>> THEN matches
    ELSE LET hit == ExactMatch(calculated_fees[1], invoice_fees)
         IN  exact_matches(Tail(calculated_fees), invoice_fees,
                           IF hit = <<>> THEN matches
                           ELSE DictSet(matches, calculated_fees[1], hit[1]))

DictValues(d) == {d[i][2] : i \in DOMAIN d}

NotKey(matches, f) == f \notin DictKeys(matches)

NotValue(matches, f) == f \notin DictValues(matches)

\* [f for f in fees if f not in matches]
RECURSIVE not_in_keys(_, _)
not_in_keys(fees, matches) ==
    IF fees = <<>> THEN <<>>
    ELSE (IF NotKey(matches, fees[1]) THEN <<fees[1]>> ELSE <<>>)
             \o not_in_keys(Tail(fees), matches)

\* [f for f in fees if f not in matches.values()]
RECURSIVE not_in_values(_, _)
not_in_values(fees, matches) ==
    IF fees = <<>> THEN <<>>
    ELSE (IF NotValue(matches, fees[1]) THEN <<fees[1]>> ELSE <<>>)
             \o not_in_values(Tail(fees), matches)

WordSet(name) == LET words == split(name) IN {words[i] : i \in DOMAIN words}

\* a score is the pair <<intersection, union>>; a / b > c / d
ScoreAbove(a, b) == a[1] * b[2] > b[1] * a[2]

\* the lowest score that is let through, 0.3
MatchThreshold == <<3, 10>>

\* score > best_score and score > 0.3
Better(score, best_score) ==
    /\ ScoreAbove(score, best_score)
    /\ ScoreAbove(score, MatchThreshold)

\* rate_tool_integration.py 268-282: the loop over unmatched_invoice from its
\* k-th entry on; best is <<>> for None and <<fee>> otherwise
RECURSIVE best_from(_, _, _, _, _)
best_from(calc_normalized, unmatched_invoice, k, best_match, best_score) ==
    IF k > Len(unmatched_invoice) THEN best_match
    ELSE LET calc_words == WordSet(calc_normalized)
             invoice_words == WordSet(normalize_fee_name(unmatched_invoice[k]))
             score == <<Cardinality(calc_words \cap invoice_words),
                        Cardinality(calc_words \cup invoice_words)>>
             taken == /\ calc_words # {}
                      /\ invoice_words # {}
                      /\ Better(score, best_score)
         IN  best_from(calc_normalized, unmatched_invoice, k + 1,
                       IF taken THEN <<unmatched_invoice[k]>> ELSE best_match,
                       IF taken THEN score ELSE best_score)

\* rate_tool_integration.py 264-282 for one calculated fee
BestMatch(calc_fee, unmatched_invoice) ==
    best_from(normalize_fee_name(calc_fee), unmatched_invoice, 1, <<>>, <<0, 1>>)

\* rate_tool_integration.py 284: if best_match
HasBestMatch(calc_fee, unmatched_invoice) ==
    /\ BestMatch(calc_fee, unmatched_invoice) # <<>>
    /\ BestMatch(calc_fee, unmatched_invoice)[1] # <<>>

\* rate_tool_integration.py 263-285
RECURSIVE partial_matches(_, _, _)
partial_matches(unmatched_calc, unmatched_invoice, matches) ==
    IF unmatched_calc = <<>> THEN matches
    ELSE LET best_match == BestMatch(unmatched_calc[1], unmatched_invoice)
         IN  partial_matches(Tail(unmatched_calc), unmatched_invoice,
                             IF HasBestMatch(unmatched_calc[1], unmatched_invoice)
                             THEN DictSet(matches, unmatched_calc[1], best_match[1])
                             ELSE matches)

\* rate_tool_integration.py 237-287
fuzzy_match_fee_types(calculated_fees, invoice_fees) ==
    LET exact == exact_matches(calculated_fees, invoice_fees, <<>>)
    IN  partial_matches(not_in_keys(calculated_fees, exact),
                        not_in_values(invoice_fees, exact), exact)

(* build_result_context. None is <<>> and a present value v is <<v>>; a      *)
(* formatted text is the tuple <<format, value>>. Amounts are in            *)
(* hundredths.                                                             *)

ZeroBucket == [total_volume |-> 0, total_amount |-> 0]

\* rate_tool_integration.py 325-337: the transaction bucket of a fee type
TransBucket(fee_type, transaction_data) ==
    LET fee_type_lower == SubSeq(lower(fee_type), 1, Len(fee_type))
    IN  IF contains(fee_type_lower, <<"i", "n", "t", "e", "r", "n", "a", "t", "i", "o", "n", "a", "l">>)
        THEN DictGet(transaction_data, "international", ZeroBucket)
        ELSE IF contains(fee_type_lower, <<"d", "o", "m", "e", "s", "t", "i", "c">>)
        THEN DictGet(transaction_data, "domestic", ZeroBucket)
        ELSE IF contains(fee_type_lower, <<"d", "i", "s", "p", "u", "t", "e">>)
        THEN DictGet(transaction_data, "disputes", ZeroBucket)
        ELSE DictGet(transaction_data, "all_transactions", ZeroBucket)

\* rate_tool_integration.py 346-370: the entry of calculated_fees made of
\* the result of calculate_fee_amount
FeeEntry(rate_chart, calc_result, currency_symbol) ==
    [rate_chart |-> rate_chart,
     calculation_method |-> calc_result.calculation_method,
     calculated_amount |-> calc_result.calculated_amount,
     final_amount |-> IF calc_result.calculated_amount > 0
                      THEN <<calc_result.calculated_amount
                                 * (IF currency_symbol = "$" THEN 78 ELSE 1)>>
                      ELSE <<>>,
     final_amount_display |-> IF calc_result.calculated_amount > 0
                              THEN <<"INR {:,.2f}",
                                     calc_result.calculated_amount
                                         * (IF currency_symbol = "$" THEN 78 ELSE 1)>>
                              ELSE <<"N/A">>,
     currency_symbol |-> currency_symbol]

\* rate_tool_integration.py 346: calc_result.get("currency", "$") or "$"
CurrencySymbol(calc_result) ==
    IF "currency" \in DOMAIN calc_result THEN calc_result.currency ELSE "$"

\* rate_tool_integration.py 339-346
CalcResult(rate_chart, card_count, trans_bucket) ==
    calculate_fee_amount(rate_chart, Num(card_count), Num(trans_bucket.total_volume),
                         Num(trans_bucket.total_amount)).ret

\* rate_tool_integration.py 349-370
EntryOf(rate_chart, calc_result) ==
    FeeEntry(rate_chart, calc_result, CurrencySymbol(calc_result))

\* rate_tool_integration.py 319-370: the entry of calculated_fees for one
\* fee type; card_data is <<>> or <<total_cards>>
CalculatedFee(fee_type, rate_chart, card_data, transaction_data) ==
    EntryOf(rate_chart,
            CalcResult(rate_chart,
                       IF card_data # <<>> THEN card_data[1] ELSE 0,
                       IF transaction_data # <<>>
                       THEN TransBucket(fee_type, transaction_data)
                       ELSE ZeroBucket))

\* rate_tool_integration.py 317-370: calculated_fees after the loop over the
\* first k mappings
RECURSIVE calculated_fees_from(_, _, _, _)
calculated_fees_from(mappings, k, card_data, transaction_data) ==
    IF k = 0 THEN <<>>
    ELSE DictSet(calculated_fees_from(mappings, k - 1, card_data, transaction_data),
                 mappings[k][1],
                 CalculatedFee(mappings[k][1], mappings[k][2], card_data, transaction_data))

Abs(x) == IF x < 0 THEN -x ELSE x

\* rate_tool_integration.py 408-431; percentage_diff is
\* (calculated_inr - visa_amount) / visa_amount * 100, and its size is less
\* than 0.01 when 10000 * |calculated_inr - visa_amount| < |visa_amount|
DiffStatus(final_amount, final_amount_display, visa_amount) ==
    IF final_amount # <<>> /\ visa_amount # <<>> /\ visa_amount # <<0>>
    THEN LET calculated_inr == final_amount[1]
             visa == visa_amount[1]
         IN  IF Abs(calculated_inr - visa) < (Abs(visa) + 9999) \div 10000
             THEN "exact"
             ELSE IF (calculated_inr > visa) = (visa > 0)
             THEN "higher"
             ELSE "lower"
    ELSE IF final_amount = <<>> \/ final_amount_display = <<"Missing">>
    THEN "missing"
    ELSE "no_visa"

\* rate_tool_integration.py 395-448: the row of one calculated fee
CalculatedRow(fee_type, calc_data, fee_matches, invoice_data) ==
    LET matched_invoice_fee == DictGet(fee_matches, fee_type, <<>>)
        visa_amount == IF matched_invoice_fee # <<>>
                       THEN <<DictGet(invoice_data, matched_invoice_fee, 0)>>
                       ELSE <<>>
    IN  [fee_type |-> fee_type,
         rate_chart |-> calc_data.rate_chart,
         calculation_method |-> calc_data.calculation_method,
         calculated_amount |-> calc_data.calculated_amount,
         final_amount |-> calc_data.final_amount,
         final_amount_display |-> calc_data.final_amount_display,
         currency_symbol |-> calc_data.currency_symbol,
         visa_amount |-> visa_amount,
         visa_amount_display |-> IF visa_amount # <<>> /\ visa_amount # <<0>>
                                 THEN <<"INR {:,.2f}", visa_amount[1]>>
                                 ELSE <<"N/A">>,
         diff_status |-> DiffStatus(calc_data.final_amount,
                                    calc_data.final_amount_display, visa_amount)]

\* rate_tool_integration.py 454-469: the row of an invoice item no
\* calculated fee was matched to
InvoiceRow(invoice_fee, invoice_amount) ==
    [fee_type |-> invoice_fee,
     rate_chart |-> <<"N", "/", "A">>,
     calculation_method |-> <<"N/A">>,
     calculated_amount |-> 0,
     final_amount |-> <<>>,
     final_amount_display |-> <<"Missing">>,
     currency_symbol |-> "INR",
     visa_amount |-> <<invoice_amount>>,
     visa_amount_display |-> <<"INR {:,.2f}", invoice_amount>>,
     diff_status |-> "missing"]

\* rate_tool_integration.py 486-491: the row counts as a matched invoice item
CountsAsMatched(row) ==
    /\ row.final_amount_display # <<"Missing">>
    /\ row.final_amount_display # <<"N/A">>
    /\ row.visa_amount_display # <<"N/A">>
    /\ row.visa_amount # <<>>

\* the rows of every sheet
AllRows(presentations) ==
    UNION { {presentations[s].rows[i] : i \in DOMAIN presentations[s].rows} :
            s \in DOMAIN presentations }

\* rate_tool_integration.py 483-499: the set is keyed by the row's fee_type
unique_matched_visa_items(presentations) ==
    {row.fee_type : row \in {r \in AllRows(presentations) : CountsAsMatched(r)}}

\* rate_tool_integration.py 484, 497-499
unique_exact_match_items(presentations) ==
    {row.fee_type : row \in {r \in AllRows(presentations) :
                                 CountsAsMatched(r) /\ r.diff_status = "exact"}}

\* rate_tool_integration.py 505, 513: num / den * 100, kept as the pair of
\* the two integers; 0 when the divisor is 0 (509, 517)
Percentage(num, den) == IF den > 0 THEN [num |-> num, den |-> den] ELSE [num |-> 0, den |-> 1]

\* rate_tool_integration.py 479-519
StatisticsOf(presentations, invoice) ==
    LET total_visa_items == Len(invoice)
        matched_items == Cardinality(unique_matched_visa_items(presentations))
        exact_match_items == Cardinality(unique_exact_match_items(presentations))
    IN  [total_visa_items |-> total_visa_items,
         matched_items |-> matched_items,
         exact_match_items |-> exact_match_items,
         fee_reconciled_percentage |-> Percentage(matched_items, total_visa_items),
         amount_match_percentage |-> Percentage(exact_match_items, matched_items)]

\* rate_tool_integration.py 384-387
FeeMatches(calculated_fees, invoice_data) ==
    IF calculated_fees # <<>> /\ invoice_data # <<>>
    THEN fuzzy_match_fee_types([i \in DOMAIN calculated_fees |-> calculated_fees[i][1]],
                               [i \in DOMAIN invoice_data |-> invoice_data[i][1]])
    ELSE <<>>

(* run_rate_analysis. An uploaded workbook is known by what the readers     *)
(* find in it; "absent" stands for a file that was not uploaded.            *)

\* rate_tool_app.py 292-330: <<>> is None, returned for a workbook that
\* cannot be read; otherwise <<total_cards>>
extract_card_issuance_data(file) ==
    IF file = "unreadable" THEN <<>>
    ELSE IF file = "cards" THEN <<40000>>
    ELSE <<0>>

\* rate_tool_app.py 688-735: the totals of a transaction workbook
process_specific_transaction_file(file) ==
    IF file = "transactions"
    THEN [total_volume |-> 1000, total_amount |-> 2000]
    ELSE ZeroBucket

\* rate_tool_integration.py 605-636: transaction_data with its totals
TransactionBuckets(file_paths, uploads) ==
    LET international == IF file_paths.international
                         THEN process_specific_transaction_file(uploads.international)
                         ELSE ZeroBucket
        domestic == IF file_paths.domestic
                    THEN process_specific_transaction_file(uploads.domestic)
                    ELSE ZeroBucket
        disputes == IF file_paths.dispute
                    THEN process_specific_transaction_file(uploads.dispute)
                    ELSE ZeroBucket
    IN  << <<"international", international>>,
           <<"domestic", domestic>>,
           <<"disputes", disputes>>,
           <<"all_transactions",
             [total_volume |-> international.total_volume + domestic.total_volume
                                   + disputes.total_volume,
              total_amount |-> international.total_amount + domestic.total_amount
                                   + disputes.total_amount]>> >>

\* rate_tool_integration.py 58-99: whether any uploaded workbook holds invoice items
extract_invoice_data_dynamically(uploads) ==
    uploads.invoice = "items" \/ uploads.summary_has_invoice

(********************* processors.py: extract_from_text **********************)
(* A Python value of the summary comparison is None, a str, an int or a     *)
(* float; numbers are held in hundredths.                                   *)

PyNone == [t |-> "None"]
PyStr(s) == [t |-> "str", v |-> s]
PyInt(n) == [t |-> "int", v |-> 100 * n]
PyNum(h) == [t |-> "float", v |-> h]

\* faulty variant: values are compared by type only
PyEqByType(a, b) == a.t = b.t

\* a == b: an int equals the float of the same value
PyEq(a, b) ==
    IF a.t \in {"int", "float"} /\ b.t \in {"int", "float"}
    THEN a.v = b.v
    ELSE a = b

\* config.py 117-124: the fields of TEXT_PATTERNS["visa_settlement"], in order
TEXT_PATTERNS ==
    <<<<"r", "e", "p", "o", "r", "t", "_", "d", "a", "t", "e">>, <<"t", "r", "a", "n", "s", "a", "c", "t", "i", "o", "n", "_", "c", "o", "u", "n", "t">>, <<"f", "e", "e", "_", "c", "r", "e", "d", "i", "t">>, <<"d", "e", "b", "i", "t", "_", "a", "m", "o", "u", "n", "t">>>>

REPORT_DATE == <<"R", "E", "P", "O", "R", "T", " ", "D", "A", "T", "E", ":">>
TOTAL_INTERCHANGE_VALUE == <<"T", "O", "T", "A", "L", " ", "I", "N", "T", "E", "R", "C", "H", "A", "N", "G", "E", " ", "V", "A", "L", "U", "E">>

IsLetter(c) ==
    \/ \E i \in DOMAIN LowerCase : LowerCase[i] = c
    \/ \E i \in DOMAIN UpperCase : UpperCase[i] = c

\* where the literal p is found in the text, letter case aside (re.IGNORECASE)
Occurrences(text, p) ==
    {i \in 1..(Len(text) - Len(p) + 1) :
         LET part == SubSeq(text, i, i + Len(p) - 1)
         IN  [k \in 1..Len(p) |-> UpperChar(part[k])] = p}

\* \s+ from position i: where it ends, 0 when there is no whitespace at i
SomeWhitespace(text, i) ==
    IF i <= Len(text) /\ text[i] \in Whitespace THEN SkipWhitespace(text, i) ELSE 0

\* [\d,]+\.\d{2} from position i: the position after the match, 0 if none
AmountEnd(text, i) ==
    LET n == RunLen(text, i)
        d == i + n
    IN  IF /\ i >= 1
           /\ n >= 1
           /\ d + 2 <= Len(text)
           /\ text[d] = "."
           /\ text[d + 1] \in Digits
           /\ text[d + 2] \in Digits
        THEN d + 3
        ELSE 0

\* REPORT DATE:\s*([0-9]{2}[A-Z]{3}[0-9]{2}) with the literal at i: where
\* group 1 begins, 0 when the pattern does not match there
DateAt(text, i) ==
    LET j == SkipWhitespace(text, i + Len(REPORT_DATE))
    IN  IF /\ j + 6 <= Len(text)
           /\ text[j] \in Digits
           /\ text[j + 1] \in Digits
           /\ IsLetter(text[j + 2])
           /\ IsLetter(text[j + 3])
           /\ IsLetter(text[j + 4])
           /\ text[j + 5] \in Digits
           /\ text[j + 6] \in Digits
        THEN j
        ELSE 0

\* TOTAL INTERCHANGE VALUE\s+(\d+) with the literal at i: where the count
\* begins, 0 when the pattern does not match there
CountAt(text, i) ==
    LET j == SomeWhitespace(text, i + Len(TOTAL_INTERCHANGE_VALUE))
    IN  IF j > 0 /\ DigitRun(text, j) >= 1 THEN j ELSE 0

\* ...\s+\d+\s+([\d,]+\.\d{2}): where the first amount begins, 0 if none
CreditAt(text, i) ==
    LET j == CountAt(text, i)
        k == IF j > 0 THEN SomeWhitespace(text, j + DigitRun(text, j)) ELSE 0
    IN  IF k > 0 /\ AmountEnd(text, k) > 0 THEN k ELSE 0

\* ...\s+\d+\s+[\d,]+\.\d{2}\s+([\d,]+\.\d{2}): where the second amount
\* begins, 0 if none
DebitAt(text, i) ==
    LET k == CreditAt(text, i)
        l == IF k > 0 THEN SomeWhitespace(text, AmountEnd(text, k)) ELSE 0
    IN  IF l > 0 /\ AmountEnd(text, l) > 0 THEN l ELSE 0

\* where group 1 of the pattern of a field begins when its literal is at i
GroupAt(field_name, text, i) ==
    IF field_name = <<"r", "e", "p", "o", "r", "t", "_", "d", "a", "t", "e">> THEN DateAt(text, i)
    ELSE IF field_name = <<"t", "r", "a", "n", "s", "a", "c", "t", "i", "o", "n", "_", "c", "o", "u", "n", "t">> THEN CountAt(text, i)
    ELSE IF field_name = <<"f", "e", "e", "_", "c", "r", "e", "d", "i", "t">> THEN CreditAt(text, i)
    ELSE DebitAt(text, i)

\* group 1 when it begins at position j
GroupText(field_name, text, j) ==
    IF field_name = <<"r", "e", "p", "o", "r", "t", "_", "d", "a", "t", "e">> THEN SubSeq(text, j, j + 6)
    ELSE IF field_name = <<"t", "r", "a", "n", "s", "a", "c", "t", "i", "o", "n", "_", "c", "o", "u", "n", "t">>
    THEN SubSeq(text, j, j + DigitRun(text, j) - 1)
    ELSE SubSeq(text, j, AmountEnd(text, j) - 1)

\* re.search(pattern, text, re.IGNORECASE): <<>> when nothing matches, else
\* <<group 1>> of the leftmost match
search(field_name, text) ==
    LET literal == IF field_name = <<"r", "e", "p", "o", "r", "t", "_", "d", "a", "t", "e">>
                   THEN REPORT_DATE ELSE TOTAL_INTERCHANGE_VALUE
        hits == {i \in Occurrences(text, literal) : GroupAt(field_name, text, i) > 0}
    IN  IF hits = {} THEN <<>>
        ELSE LET first == CHOOSE i \in hits : \A j \in hits : i <= j
             IN  <<GroupText(field_name, text, GroupAt(field_name, text, first))>>

\* word.capitalize()
capitalize(word) ==
    [i \in 1..Len(word) |->
         IF i = 1 THEN UpperChar(word[i]) ELSE LowerChar(word[i])]

\* " ".join(word.capitalize() for word in field_name.split("_"))
RECURSIVE format_field_name(_)
format_field_name(field_name) ==
    LET marks == {i \in DOMAIN field_name : field_name[i] = "_"}
    IN  IF marks = {} THEN capitalize(field_name)
        ELSE LET p == CHOOSE i \in marks : \A j \in marks : i <= j
             IN  capitalize(SubSeq(field_name, 1, p - 1)) \o <<" ">>
                     \o format_field_name(SubSeq(field_name, p + 1, Len(field_name)))

\* processors.py 72-82: the value extracted for a field
FieldValue(field_name, text) ==
    LET match == search(field_name, text)
    IN  IF match = <<>> THEN PyNone
        ELSE IF contains(field_name, <<"c", "o", "u", "n", "t">>) THEN PyInt(IntVal(match[1]))
        ELSE IF contains(field_name, <<"a", "m", "o", "u", "n", "t">>) \/ contains(field_name, <<"c", "r", "e", "d", "i", "t">>)
        THEN PyNum(NumberValue(remove(match[1], <<",">>)))
        ELSE PyStr(match[1])

\* processors.py 181-186: the summary computed from the detailed table
VisaSummary(table) ==
    << <<<<"R", "e", "p", "o", "r", "t", " ", "D", "a", "t", "e">>, PyStr(<<"N", "/", "A", " ", "(", "f", "r", "o", "m", " ", "E", "x", "c", "e", "l", ")">>)>>,
       <<<<"T", "r", "a", "n", "s", "a", "c", "t", "i", "o", "n", " ", "C", "o", "u", "n", "t">>, PyInt(table.rows)>>,
       <<<<"D", "e", "b", "i", "t", " ", "A", "m", "o", "u", "n", "t">>, IF table.Amount = <<>> THEN PyInt(0) ELSE PyNum(table.Amount[1])>>,
       <<<<"F", "e", "e", " ", "C", "r", "e", "d", "i", "t">>, IF table.Interchange = <<>> THEN PyInt(0) ELSE PyNum(table.Interchange[1])>> >>

\* processors.py 191-199: the check row of a key
CheckRow(key, visa_summary, txt_data) ==
    LET val1 == DictGet(visa_summary, key, PyStr(<<"N", "/", "A">>))
        val2 == DictGet(txt_data, key, PyNone)
    IN  [Check |-> key,
         Detailed_Report |-> <<"str", val1>>,
         Summary_Report |-> <<"str", val2>>,
         Status |-> IF PyEq(val1, val2) THEN "Match" ELSE "Mismatch"]

(********************** app.py and the processors' temp files ****************)
(* An upload is <<>> when the form has no such file, else a record of its   *)
(* client file name and of what it holds. A staged file records the request *)
(* that wrote it. Texts are <<format, argument>>.                           *)

\* config.py 13-72: the required files of each reconciliation type, in order
RECONCILIATION_TYPES ==
    << <<"bank_vs_visa",
         << [field_name |-> "excel_file", label |-> "Bank Statement (Excel)"],
            [field_name |-> "txt_file_bank", label |-> "VISA Settlement Summary (TXT)"] >> >>,
       <<"visa_vs_summary",
         << [field_name |-> "visa_file", label |-> "VISA Detailed Report (Excel)"],
            [field_name |-> "txt_file_summary", label |-> "VISA Settlement Summary (TXT)"] >> >>,
       <<"cms_vs_visa",
         << [field_name |-> "cms_file", label |-> "CMS Report (Excel)"],
            [field_name |-> "visa_file_cms", label |-> "VISA Report (Excel)"] >> >> >>

\* config.py 192-194
validate_reconciliation_type(recon_type) == recon_type \in DictKeys(RECONCILIATION_TYPES)

\* processors.py 101: not file_obj or file_obj.filename == ''
NoFile(file_obj) == IF file_obj = <<>> THEN TRUE ELSE file_obj.filename = <<>>

\* the required fields from position k on: the first one without a file
RECURSIVE FirstMissing(_, _, _)
FirstMissing(required_fields, k, files) ==
    IF k > Len(required_fields) THEN <<>>
    ELSE IF NoFile(DictGet(files, required_fields[k].field_name, <<>>))
    THEN <<required_fields[k]>>
    ELSE FirstMissing(required_fields, k + 1, files)

\* faulty variant: the last required field without a file is named
RECURSIVE LastMissing(_, _, _)
LastMissing(required_fields, k, files) ==
    IF k > Len(required_fields) THEN <<>>
    ELSE IF LastMissing(required_fields, k + 1, files) # <<>>
    THEN LastMissing(required_fields, k + 1, files)
    ELSE IF NoFile(DictGet(files, required_fields[k].field_name, <<>>))
    THEN <<required_fields[k]>>
    ELSE <<>>

\* faulty variant of validate_files
validate_filesLastNamed(files, recon_type) ==
    IF ~validate_reconciliation_type(recon_type)
    THEN <<"Unknown reconciliation type: {}", recon_type>>
    ELSE LET missing == LastMissing(DictGet(RECONCILIATION_TYPES, recon_type, <<>>), 1, files)
         IN  IF missing = <<>> THEN <<>>
             ELSE <<"Please upload {}", missing[1].label>>

\* processors.py 90-105: <<>> for (True, ""), else the error message
validate_files(files, recon_type) ==
    IF ~validate_reconciliation_type(recon_type)
    THEN <<"Unknown reconciliation type: {}", recon_type>>
    ELSE LET missing == FirstMissing(DictGet(RECONCILIATION_TYPES, recon_type, <<>>), 1, files)
         IN  IF missing = <<>> THEN <<>>
             ELSE <<"Please upload {}", missing[1].label>>

\* the upload a processor takes for the k-th file of its type
UploadOf(form, k) ==
    DictGet(form.files,
            DictGet(RECONCILIATION_TYPES, form.recon_type, <<>>)[k].field_name, <<>>)

\* processors.py 135-136: f"temp_{file.filename}"
TempPath(file) == <<"temp_">> \o file.filename

\* file.save(path) opens the path for writing: it raises when the path names
\* a directory that does not exist
CanSave(path) == \A i \in DOMAIN path : path[i] # "/"

\* the file at a path of the working directory, <<>> when there is none
FileAt(files_on_disk, path) ==
    IF \E f \in files_on_disk : f.path = path
    THEN <<CHOOSE f \in files_on_disk : f.path = path>>
    ELSE <<>>

\* writing a path replaces what was there
Written(files_on_disk, path, owner, holds) ==
    {f \in files_on_disk : f.path # path}
        \cup {[path |-> path, owner |-> owner, holds |-> holds]}

\* os.path.exists(path) and os.remove(path)
Removed(files_on_disk, path) == {f \in files_on_disk : f.path # path}

\* what the body of a processor makes of the two staged files: it raises when
\* one is gone or cannot be parsed, else it returns the rows of the first
\* workbook, compared with the second file
WorkRaisesOn(first, second) ==
    IF first = <<>> \/ second = <<>> THEN TRUE
    ELSE first[1].holds = "unreadable" \/ second[1].holds = "unreadable"

WorkResult(first, second) ==
    IF first[1].holds = "no rows" THEN <<>>
    ELSE <<[rows_of |-> first[1].owner, compared_with |-> second[1].owner]>>

\* rate_tool_integration.py 33-34: the text after the last full stop, in
\* lower case, is xls or xlsx
allowed_file(filename) ==
    LET dots == {i \in DOMAIN filename : filename[i] = "."}
    IN  /\ dots # {}
        /\ LET last == CHOOSE i \in dots : \A j \in dots : j <= i
               extension == SubSeq(filename, last + 1, Len(filename))
           IN  [i \in DOMAIN extension |-> LowerChar(extension[i])] \in {<<"x", "l", "s">>, <<"x", "l", "s", "x">>}

(********************************* bounds **********************************)

MaxBankRows == 2
MaxVisaKeys == 1
MaxLines == 2
MaxTokenLen == 4
MaxGridRows == 3
MaxColumns == 2
MaxFragments == 2
MaxCalculatedFees == 2
MaxInvoiceFees == 2
MaxSections == 2
MaxRequests == 3
MaxParallel == 2

(********************************* inputs **********************************)

\* rows of the bank sheet: the first-column cell (a blank cell reads "nan")
\* and the DR, CR and Net cells (a blank cell reads NaN)
BankRows ==
    { [label |-> <<" ", "i", "n", "t", "e", "r", "c", "h", "a", "n", "g", "e">>,
       DR |-> F(200), CR |-> F(100), Net |-> F(100)],
      [label |-> <<"n", "a", "n">>,
       DR |-> F(200), CR |-> F(100), Net |-> F(100)],
      [label |-> <<"O", "t", "h", "e", "r">>,
       DR |-> NaN, CR |-> F(0), Net |-> NaN] }

BankSheets == UNION { [1..n -> BankRows] : n \in 0..MaxBankRows }

\* entries of the settlement report, one for each valid section
VisaPairs ==
    { <<S_INTERCHANGE, Entry(F(201), F(100), F(101))>>,
      <<S_REIMBURSEMENT, Entry(F(201), F(100), F(101))>>,
      <<S_REIMBURSEMENTFEES, Entry(F(200), F(100), F(100))>>,
      <<S_VISACHARGES, Entry(F(200), F(100), F(100))>>,
      <<S_NETSETTLEMENT, Entry(F(200), F(100), F(100))>>,
      <<S_TOTAL, Entry(F(201), F(100), F(101))>> }

\* what extract_from_txt returns: distinct keys, all of valid_sections
VisaData ==
    { d \in UNION { [1..n -> VisaPairs] : n \in 0..MaxVisaKeys } :
          \A i, j \in DOMAIN d : i # j => d[i][1] # d[j][1] }

\* how the lines of the settlement report begin
ReportLabels ==
    { <<>>,
      <<"I", "N", "T", "E", "R", "C", "H", "A", "N", "G", "E">>,
      <<"R", "E", "I", "M", "B", "U", "R", "S", "E", "M", "E", "N", "T", " ",
        "F", "E", "E", "S">>,
      <<"A", "C", "Q", "U", "I", "R", "E", "R">>,
      <<"T", "O", "T", "A", "L">>,
      <<"T", "O", "T", "A", "L", " ", "I", "N", "T", "E", "R", "C", "H", "A", "N",
        "G", "E", " ", "V", "A", "L", "U", "E">>,
      <<"t", "o", "t", "a", "l", " ", "i", "n", "t", "e", "r", "c", "h", "a", "n",
        "g", "e", " ", "v", "a", "l", "u", "e">>,
      <<"N", "E", "T", " ", "S", "E", "T", "T", "L", "E", "M", "E", "N", "T", " ",
        "A", "M", "O", "U", "N", "T">> }

\* how they go on: no number, a count, one to three amounts
ReportTails ==
    { <<>>,
      <<" ", "1", "2">>,
      <<" ", "1", ".", "0", "0">>,
      <<" ", "1", ".", "0", "0", " ", "2", ".", "5", "0", "C", "R">>,
      <<" ", "1", "2", " ", "1", ",", "0", "0", "0", ".", "0", "0", "C", "R", " ",
        "2", ".", "5", "0", "D", "B", " ", "1", ".", "0", "0", " ">> }

ReportLines == {l \o t : l \in ReportLabels, t \in ReportTails}

\* the characters of the tokens given to parse_amount
TokenChars == {"1", ",", ".", " ", "-", "D", "B", "C", "R"}

\* amounts are counted in hundredths: no third digit after a full stop
InHundredths(t) ==
    \A i \in DOMAIN t :
        t[i] = "." =>
            ~(i + 3 <= Len(t) /\ AllDigits(SubSeq(t, i + 1, i + 3)))

ExampleTokens ==
    { <<"1", ",", "5", "4", "0", ",", "0", "0", "0", ".", "0", "0", "D", "B">>,
      <<"1", ",", "5", "0", "0", ".", "0", "0", "C", "R">>,
      <<"a", "b", "c">> }

Tokens ==
    ExampleTokens \cup
    {t \in UNION { [1..n -> TokenChars] : n \in 0..MaxTokenLen } : InHundredths(t)}

\* rows of the sheet, every cell as the text astype(str) gives
GridRows ==
    { << <<"R", "e", "p", "o", "r", "t">>, <<"n", "a", "n">> >>,
      << <<" ", "T", "r", "a", "n", "s", "a", "c", "t", "i", "o", "n", " ", "I", "D", " ">>, <<"R", "R", "N", " ", "N", "o">>, <<"A", "m", "o", "u", "n", "t">> >>,
      << <<"T", "R", "A", "N", "S", "A", "C", "T">>, <<"n", "a", "n">> >>,
      << <<"D", "e", "s", "c", "r", "i", "p", "t", "i", "o", "n">>, <<"D", "R">>, <<"C", "R">>, <<"N", "e", "t">> >>,
      << <<"r", "r", "n", " ", "t", "r", "a", "n", "s", "a", "c", "t", "i", "o", "n">> >>,
      << <<"C", "r", "e", "d", "i", "t">>, <<"N", "e", "t", " ", "D", "r", "a", "w", "n">> >>,
      << <<"R", "R", "N">> >> }


Grids == UNION { [1..n -> GridRows] : n \in 0..MaxGridRows }

DetectionTypes == {"transaction_excel", "bank_excel", "unknown"}

\* column labels of the sheet
ColumnLabels ==
    { <<" ", "T", "r", "a", "n", "s", "a", "c", "t", "i", "o", "n", "_", "I", "D", " ">>,
      <<"M", "e", "r", "c", "h", "a", "n", "t", " ", "I", "D">>,
      <<"D", "e", "b", "i", "t", " ", "A", "m", "o", "u", "n", "t">>,
      <<"C", "r", "e", "d", "i", "t">>,
      <<"M", "C", "C", " ", "C", "o", "d", "e">>,
      <<"N", "e", "t", "_", "A", "m", "o", "u", "n", "t">>,
      <<"R", "R", "N", " ", "N", "o">>,
      <<"F", "e", "e">>,
      <<"D", "a", "t", "e">>,
      <<"R", "e", "f", "_", "N", "o">>,
      <<"D", "e", "s", "c", "r", "i", "p", "t", "i", "o", "n">>,
      <<"N", "e", "t">>,
      <<"T", "r", "a", "n", "s", "a", "c", "t", "i", "o", "n", " ", "I", "D">>,
      <<"M", "e", "r", "c", "h", "a", "n", "t">>,
      <<"A", "m", "o", "u", "n", "t">>,
      <<"I", "n", "t", "e", "r", "c", "h", "a", "n", "g", "e">>,
      <<"D", "R">>,
      <<"C", "R">> }


ColumnLists == UNION { [1..n -> ColumnLabels] : n \in 0..MaxColumns }

\* the pieces rate formulas are put together from
FormulaFragments ==
    { <<"f", "i", "r", "s", "t", " ", "t", "h", "e", "r", "e", "a", "f", "t", "e", "r", " ", "1", "k", " ">>,
      <<"P", "e", "r", " ", "T", "r", "a", "n", "s", "a", "c", "t", "i", "o", "n", " ">>,
      <<"R", "s", " ", "3", " ", "p", "e", "r", " ", "d", "i", "s", "p", "u", "t", "e", " ">>,
      <<"N", "o", " ", "o", "f", " ", "t", "r", "a", "n", " ", "$", " ">>,
      <<"A", "m", "o", "u", "n", "t", " ", "o", "f", " ", "t", "r", "a", "n", " ">>,
      <<"7", " ">>,
      <<"R", "s", " ", "0", ".", "2", "5", " ">> }

RECURSIVE Flatten(_)
Flatten(pieces) ==
    IF pieces = <<>> THEN <<>> ELSE pieces[1] \o Flatten(Tail(pieces))

\* rate formulas as the summary sheet words them
ExampleFormulas ==
    { <<"$", "2", " ", "f", "o", "r", " ", "f", "i", "r", "s", "t", " ", "3", "0", "K", " ", "c", "a", "r", "d", "s", "\n", "$", "1", ".", "5", " ", "p", "e", "r", " ", "c", "a", "r", "d", " ", "t", "h", "e", "r", "e", "a", "f", "t", "e", "r">>,
      <<"$", "2", " ", "f", "o", "r", " ", "f", "i", "r", "s", "t", " ", "3", "0", "K", " ", "c", "a", "r", "d", "s", ",", " ", "$", "1", ".", "5", " ", "p", "e", "r", " ", "c", "a", "r", "d", " ", "t", "h", "e", "r", "e", "a", "f", "t", "e", "r">>,
      <<"$", "2", " ", "f", "o", "r", " ", "f", "i", "r", "s", "t", " ", "3", "0", "K", " ", "c", "a", "r", "d", "s", "\n", "f", "r", "e", "e", " ", "t", "h", "e", "r", "e", "a", "f", "t", "e", "r">>,
      <<"$", "2", " ", "f", "o", "r", " ", "t", "h", "e", " ", "f", "i", "r", "s", "t", " ", "c", "a", "r", "d", "s", "\n", "$", "1", ".", "5", " ", "p", "e", "r", " ", "c", "a", "r", "d", " ", "t", "h", "e", "r", "e", "a", "f", "t", "e", "r">>,
      <<"R", "s", " ", "0", ".", "2", "5", " ", "p", "e", "r", " ", "t", "r", "a", "n", "s", "a", "c", "t", "i", "o", "n">>,
      <<"5", "$", " ", "p", "e", "r", " ", "t", "r", "a", "n", "s", "a", "c", "t", "i", "o", "n">>,
      <<"R", "s", " ", "2", "5", "0", " ", "p", "e", "r", " ", "d", "i", "s", "p", "u", "t", "e">>,
      <<"N", "o", " ", "o", "f", " ", "t", "r", "a", "n", " ", "*", " ", "5", "$">>,
      <<"N", "o", " ", "o", "f", " ", "t", "r", "a", "n", " ", "*", " ", "5">>,
      <<"A", "m", "o", "u", "n", "t", " ", "o", "f", " ", "t", "r", "a", "n", " ", "*", "0", ".", "5", "$">>,
      <<"A", "m", "o", "u", "n", "t", " ", "o", "f", " ", "t", "r", "a", "n", " ", "*", "R", "s", "0", ".", "2", "5">>,
      <<"2", " ", "x", " ", "A", "m", "o", "u", "n", "t", " ", "o", "f", " ", "t", "r", "a", "n">>,
      <<"A", "m", "o", "u", "t", " ", "o", "f", " ", "t", "r", "a", "n", " ", "*", " ", "2">>,
      <<"A", "m", "o", "u", "n", "t", " ", "o", "f", " ", "t", "r", "a", "n", " ", "3", " ", "*", " ", "R", "s", " ", "2">>,
      <<" ", "5", "0", "0", " ">>,
      <<"$", "5", "0", "0">>,
      <<"T", "B", "D">> }

RateFormulas ==
    ExampleFormulas \cup
    {Flatten(p) : p \in UNION { [1..n -> FormulaFragments] : n \in 0..MaxFragments }}

\* card count, transaction count and transaction amount of a call
Volumes ==
    { <<Num(40000), Num(1000), Num(2000)>>,
      <<Num(10000), Num(0), Num(0)>>,
      <<Num(30000), Num(3), NotNumber>>,
      <<Num(1000), NotNumber, Num(5)>>,
      <<Num(1001), Num(1000), Num(2000)>>,
      <<NotNumber, NotNumber, NotNumber>> }

\* fee types of the rate chart, in the order of its rows
CalculatedLabels ==
    << <<"I", "n", "t", "e", "r", "n", "a", "t", "i", "o", "n", "a", "l", " ", "L", "i", "c", "e", "n", "s", "e", " ", "F", "e", "e">>,
       <<"C", "a", "r", "d", " ", "I", "s", "s", "u", "a", "n", "c", "e", " ", "F", "e", "e">>,
       <<"C", "a", "r", "d", " ", "F", "e", "e">>,
       <<"C", "a", "r", "d", "-", "C", "h", "a", "r", "g", "e">>,
       <<"A", " ", "B", " ", "C", " ", "D", " ", "E", " ", "F">> >>

\* fee names of the invoice
InvoiceLabels ==
    { <<"I", "n", "t", "l", " ", "L", "i", "c", "e", "n", "s", "e", " ", "F", "e", "e", "s">>,
      <<"D", "i", "s", "p", "u", "t", "e", " ", "H", "a", "n", "d", "l", "i", "n", "g", " ", "C", "h", "a", "r", "g", "e">>,
      <<"C", "a", "r", "d", " ", "C", "o", "s", "t">>,
      <<"C", "a", "r", "d", " ", "I", "s", "s", "u", "a", "n", "c", "e", " ", "F", "e", "e", "s">>,
      <<"I", "s", "s", "u", "a", "n", "c", "e", " ", "C", "a", "r", "d", " ", "P", "l", "a", "n">>,
      <<"A", " ", "B", " ", "C", " ", "G", " ", "H", " ", "I", " ", "J">> }

\* lists without repetition: they are the keys of a dict
Distinct(list) == \A i, j \in DOMAIN list : i # j => list[i] # list[j]

\* the rows of a chart that holds some of the fee types
Rows(picked) == SelectSeq(CalculatedLabels, LAMBDA f : f \in picked)

CalculatedLists ==
    {Rows(picked) : picked \in {p \in SUBSET {CalculatedLabels[i] : i \in DOMAIN CalculatedLabels} :
                                    Cardinality(p) <= MaxCalculatedFees}}

InvoiceLists ==
    {l \in UNION { [1..n -> InvoiceLabels] : n \in 0..MaxInvoiceFees } : Distinct(l)}

\* the rate chart of a summary sheet: the rate formula of every fee type
RateChart ==
    << <<<<"I", "n", "t", "e", "r", "n", "a", "t", "i", "o", "n", "a", "l", " ", "L", "i", "c", "e", "n", "s", "e", " ", "F", "e", "e">>, <<"R", "s", " ", "0", ".", "2", "5", " ", "p", "e", "r", " ", "t", "r", "a", "n", "s", "a", "c", "t", "i", "o", "n">>>>,
       <<<<"C", "a", "r", "d", " ", "I", "s", "s", "u", "a", "n", "c", "e", " ", "F", "e", "e">>, <<"$", "2", " ", "f", "o", "r", " ", "f", "i", "r", "s", "t", " ", "3", "0", "K", " ", "c", "a", "r", "d", "s", "\n", "$", "1", ".", "5", " ", "p", "e", "r", " ", "c", "a", "r", "d", " ", "t", "h", "e", "r", "e", "a", "f", "t", "e", "r">>>>,
       <<<<"C", "a", "r", "d", " ", "F", "e", "e">>, <<"$", "5", "0", "0">>>>,
       <<<<"C", "a", "r", "d", "-", "C", "h", "a", "r", "g", "e">>, <<"T", "B", "D">>>>,
       <<<<"A", " ", "B", " ", "C", " ", "D", " ", "E", " ", "F">>, <<"N", "o", " ", "o", "f", " ", "t", "r", "a", "n", " ", "*", " ", "5", "$">>>> >>

\* the amounts of an invoice, in hundredths
InvoiceAmounts ==
    << <<<<"I", "n", "t", "l", " ", "L", "i", "c", "e", "n", "s", "e", " ", "F", "e", "e", "s">>, 30000>>,
       <<<<"D", "i", "s", "p", "u", "t", "e", " ", "H", "a", "n", "d", "l", "i", "n", "g", " ", "C", "h", "a", "r", "g", "e">>, 25000>>,
       <<<<"C", "a", "r", "d", " ", "C", "o", "s", "t">>, 3900000>>,
       <<<<"C", "a", "r", "d", " ", "I", "s", "s", "u", "a", "n", "c", "e", " ", "F", "e", "e", "s">>, 500000000>>,
       <<<<"I", "s", "s", "u", "a", "n", "c", "e", " ", "C", "a", "r", "d", " ", "P", "l", "a", "n">>, 0>>,
       <<<<"A", " ", "B", " ", "C", " ", "G", " ", "H", " ", "I", " ", "J">>, 10000>> >>

\* sheets that hold some rows of the chart
SheetMappings ==
    {[i \in DOMAIN l |-> <<l[i], DictGet(RateChart, l[i], <<>>)>>] : l \in CalculatedLists}

\* invoices that hold some of the items, in any order
Invoices ==
    {[i \in DOMAIN l |-> <<l[i], DictGet(InvoiceAmounts, l[i], 0)>>] : l \in InvoiceLists}

\* the sheets of the rate analysis after the first one: none, an empty sheet,
\* a sheet that repeats a row of the chart, or a sheet that gives the rate of
\* that row to a fee of another name
OtherSheets ==
    { <<>>,
      << <<>> >>,
      << << <<<<"C", "a", "r", "d", " ", "I", "s", "s", "u", "a", "n", "c", "e", " ", "F", "e", "e">>, DictGet(RateChart, <<"C", "a", "r", "d", " ", "I", "s", "s", "u", "a", "n", "c", "e", " ", "F", "e", "e">>, <<>>)>> >> >>,
      << << <<<<"C", "a", "r", "d", "-", "C", "h", "a", "r", "g", "e">>, DictGet(RateChart, <<"C", "a", "r", "d", " ", "I", "s", "s", "u", "a", "n", "c", "e", " ", "F", "e", "e">>, <<>>)>> >> >> }

\* the totals read from the card and transaction files
CardData == <<40000>>

TransactionData ==
    << <<"international", [total_volume |-> 1000, total_amount |-> 2000]>>,
       <<"domestic", [total_volume |-> 3000, total_amount |-> 9000]>>,
       <<"disputes", [total_volume |-> 3, total_amount |-> 60]>>,
       <<"all_transactions", [total_volume |-> 4000, total_amount |-> 11000]>> >>

\* section keys as extract_values and extract_from_txt produce them: mapped
\* ones, two pairs that share a result key, canonical ones and unmapped ones
SectionKeys ==
    {S_TOTAL, S_NETSETTLEMENT, S_REIMBURSEMENT, S_REIMBURSEMENTFEES,
     <<"V", "i", "s", "a", " ", "C", "h", "a", "r", "g", "e", "s">>,
     Total, Interchange,
     <<"O", "t", "h", "e", "r">>}

SectionPairs ==
    {<<k, e>> : k \in SectionKeys,
                e \in {Entry(F(200), F(100), F(100)), Entry(F(201), F(100), F(101))}}

\* dicts of sections: distinct keys, in every order
SectionData ==
    { d \in UNION { [1..n -> SectionPairs] : n \in 0..MaxSections } :
          \A i, j \in DOMAIN d : i # j => d[i][1] # d[j][1] }

\* the uploads of one analysis request
Uploads ==
    [card : {"absent", "unreadable", "no cards", "cards"},
     international : {"absent", "no transactions", "transactions"},
     domestic : {"absent", "no transactions", "transactions"},
     dispute : {"absent", "no transactions", "transactions"},
     invoice : {"absent", "no items", "items"},
     summary_has_invoice : BOOLEAN]

\* file_paths of run_rate_analysis: TRUE for a path, FALSE for None
FilePaths(u) ==
    [card |-> u.card # "absent",
     international |-> u.international # "absent",
     domestic |-> u.domestic # "absent",
     dispute |-> u.dispute # "absent",
     invoice |-> u.invoice # "absent"]

\* how a summary report may give its date
DateParts ==
    { <<>>,
      <<"R", "E", "P", "O", "R", "T", " ", "D", "A", "T", "E", ":", " ", "0", "1", "J", "A", "N", "2", "4">>,
      <<"r", "e", "p", "o", "r", "t", " ", "d", "a", "t", "e", ":", "0", "1", "j", "a", "n", "2", "4">>,
      <<"R", "E", "P", "O", "R", "T", " ", "D", "A", "T", "E", ":", " ", "1", "J", "A", "N", "2", "4">>,
      <<"R", "E", "P", "O", "R", "T", " ", "D", "A", "T", "E", ":", " ", "N", "/", "A", " ", "(", "f", "r", "o", "m", " ", "E", "x", "c", "e", "l", ")">> }

\* how it may give its totals
TotalParts ==
    { <<>>,
      <<"T", "O", "T", "A", "L", " ", "I", "N", "T", "E", "R", "C", "H", "A", "N", "G", "E", " ", "V", "A", "L", "U", "E", " ", "1", "2", " ", "1", ",", "0", "0", "0", ".", "0", "0", " ", "2", ".", "5", "0">>,
      <<"T", "O", "T", "A", "L", " ", "I", "N", "T", "E", "R", "C", "H", "A", "N", "G", "E", " ", "V", "A", "L", "U", "E", " ", "1", "2">>,
      <<"t", "o", "t", "a", "l", " ", "i", "n", "t", "e", "r", "c", "h", "a", "n", "g", "e", " ", "v", "a", "l", "u", "e", " ", " ", "1", "2", " ", "2", ".", "5", "0">>,
      <<"T", "O", "T", "A", "L", " ", "I", "N", "T", "E", "R", "C", "H", "A", "N", "G", "E", " ", "V", "A", "L", "U", "E", " ", "1", ",", "0", "0", "0", ".", "0", "0", " ", "2", ".", "5", "0">>,
      <<"T", "O", "T", "A", "L", " ", "I", "N", "T", "E", "R", "C", "H", "A", "N", "G", "E", " ", "V", "A", "L", "U", "E", "1", "2", " ", "1", ".", "0", "0", "\n", "T", "O", "T", "A", "L", " ", "I", "N", "T", "E", "R", "C", "H", "A", "N", "G", "E", " ", "V", "A", "L", "U", "E", " ", "7", " ", "2", ".", "5", "0", " ", "1", ",", "0", "0", "0", ".", "0", "0">> }

SummaryTexts == {d \o <<"\n">> \o t : d \in DateParts, t \in TotalParts}

\* the detailed table after load_excel_with_autodetect, normalize_columns and
\* the filters: whether a header row was found, the number of rows left, and
\* the sums of the Amount and Interchange columns (<<>> for no such column)
VisaTables ==
    [header : BOOLEAN,
     rows : {7, 12},
     Amount : {<<>>, <<250>>},
     Interchange : {<<>>, <<100000>>}]

Upload(filename, holds) == [filename |-> filename, holds |-> holds]

\* the forms of reconciliation POSTs: an unknown type, missing and empty-named
\* required files, workbooks with rows, without rows and unreadable, two
\* uploads with one file name, and file names with a directory part
PostForms ==
    { [recon_type |-> "tax_vs_visa",
       files |-> << <<"excel_file", Upload(<<"a", ".", "x", "l", "s", "x">>, "rows")>>,
                    <<"txt_file_bank", Upload(<<"b", ".", "t", "x", "t">>, "rows")>> >>],
      [recon_type |-> "bank_vs_visa", files |-> <<>>],
      [recon_type |-> "bank_vs_visa",
       files |-> << <<"excel_file", Upload(<<"a", ".", "x", "l", "s", "x">>, "rows")>> >>],
      [recon_type |-> "visa_vs_summary",
       files |-> << <<"visa_file", Upload(<<>>, "rows")>>,
                    <<"txt_file_summary", Upload(<<"b", ".", "t", "x", "t">>, "rows")>> >>],
      [recon_type |-> "cms_vs_visa",
       files |-> << <<"cms_file", Upload(<<"a", ".", "x", "l", "s", "x">>, "rows")>>,
                    <<"visa_file_cms", Upload(<<>>, "rows")>> >>],
      [recon_type |-> "bank_vs_visa",
       files |-> << <<"excel_file", Upload(<<"a", ".", "x", "l", "s", "x">>, "rows")>>,
                    <<"txt_file_bank", Upload(<<"b", ".", "t", "x", "t">>, "rows")>> >>],
      [recon_type |-> "bank_vs_visa",
       files |-> << <<"excel_file", Upload(<<"a", ".", "x", "l", "s", "x">>, "no rows")>>,
                    <<"txt_file_bank", Upload(<<"b", ".", "t", "x", "t">>, "no rows")>> >>],
      [recon_type |-> "bank_vs_visa",
       files |-> << <<"excel_file", Upload(<<"a", ".", "x", "l", "s", "x">>, "unreadable")>>,
                    <<"txt_file_bank", Upload(<<"b", ".", "t", "x", "t">>, "rows")>> >>],
      [recon_type |-> "cms_vs_visa",
       files |-> << <<"cms_file", Upload(<<"a", ".", "x", "l", "s", "x">>, "rows")>>,
                    <<"visa_file_cms", Upload(<<"a", ".", "x", "l", "s", "x">>, "rows")>> >>],
      [recon_type |-> "visa_vs_summary",
       files |-> << <<"visa_file", Upload(<<"a", ".", "x", "l", "s", "x">>, "rows")>>,
                    <<"txt_file_summary", Upload(<<"d", "/", "b", ".", "t", "x", "t">>, "rows")>> >>],
      [recon_type |-> "visa_vs_summary",
       files |-> << <<"visa_file", Upload(<<"d", "/", "a", ".", "x", "l", "s", "x">>, "rows")>>,
                    <<"txt_file_summary", Upload(<<"b", ".", "t", "x", "t">>, "rows")>> >>] }

\* the forms of /rates-file POSTs: no summary file, a summary workbook, and a
\* summary file that is not a workbook
RatesForms ==
    { [recon_type |-> "", files |-> <<>>],
      [recon_type |-> "", files |-> << <<"summary_file", Upload(<<"s", ".", "x", "l", "s", "x">>, "rows")>> >>],
      [recon_type |-> "", files |-> << <<"summary_file", Upload(<<"s", ".", "t", "x", "t">>, "rows")>> >>] }

\* a request: a POST to /, a call of processor.process, a GET of /download or
\* a POST to /rates-file
Requests ==
    {[kind |-> "index", form |-> f] : f \in PostForms}
        \cup {[kind |-> "process", form |-> f] :
                  f \in {g \in PostForms : g.recon_type \in {"tax_vs_visa", "bank_vs_visa"}}}
        \cup {[kind |-> "download", form |-> [recon_type |-> "", files |-> <<>>]]}
        \cup {[kind |-> "rates", form |-> f] : f \in RatesForms}

(********************************** state **********************************)

VARIABLES
    bank_in,        \* the rows of the uploaded bank sheet
    visa_in,        \* the entries of the uploaded settlement report
    bank_data,      \* reconcile's bank_data
    visa_data,      \* reconcile's visa_data
    sections,       \* the sections the loop of reconcile has still to visit
    records,        \* reconcile's records
    rpc,            \* where process_bank_vs_visa stands
    runs,           \* how many times the request was served
    prev_records,   \* the records of the previous run
    line,           \* extract_from_txt: the line of the file read last
    nread,          \* extract_from_txt: how many lines were read
    data,           \* extract_from_txt: data
    tpc,            \* where extract_from_txt stands
    value,          \* parse_amount: its argument
    amount,         \* parse_amount: how the call ended
    apc,            \* where parse_amount stands
    grid,           \* load_excel_with_autodetect: df_raw
    detection_type, \* load_excel_with_autodetect: detection_type
    hi,             \* load_excel_with_autodetect: the row index i of the loop
    header_row,     \* load_excel_with_autodetect: <<>> is None, <<i>> is i
    hpc,            \* where load_excel_with_autodetect stands
    columns,        \* normalize_columns: df.columns
    ci,             \* normalize_columns: columns the outer loop is done with
    ri,             \* normalize_columns: mappings the inner loop is done with
    col_map,        \* normalize_columns: col_map
    renamed,        \* normalize_columns: the columns of the frame returned
    cpc,            \* where normalize_columns stands
    normalized_once,\* the columns the first normalize_columns returned
    passes,         \* how many times normalize_columns was applied
    rate_formula,   \* calculate_fee_amount: rate_formula
    volumes,        \* calculate_fee_amount: card_count, transaction_count
                    \* and transaction_amount
    fee_result,     \* calculate_fee_amount: the dict returned
    fpc,            \* where calculate_fee_amount stands
    calculated_fees,\* fuzzy_match_fee_types: calculated_fees
    invoice_fees,   \* fuzzy_match_fee_types: invoice_fees
    matches,        \* fuzzy_match_fee_types: matches
    mi,             \* fuzzy_match_fee_types: fees the running loop is done with
    unmatched_calc, \* fuzzy_match_fee_types: unmatched_calc
    unmatched_invoice, \* fuzzy_match_fee_types: unmatched_invoice
    mpc,            \* where fuzzy_match_fee_types stands
    mappings,       \* build_result_context: the mappings of the sheet
    invoice_data,   \* build_result_context: invoice_data
    sheet_fees,     \* build_result_context: calculated_fees of the sheet
    fee_matches,    \* build_result_context: fee_matches
    unified_rows,   \* build_result_context: unified_rows
    processed_invoice_items, \* build_result_context: processed_invoice_items
    fi,             \* build_result_context: calculated fees that have their row
    ii,             \* build_result_context: invoice items gone through
    sheets_presentations, \* build_result_context: sheets_presentations
    bpc,            \* where build_result_context stands
    other_sheets,   \* build_result_context: the sheets the loop has yet to visit
    statistics,     \* build_result_context: the counts and percentages of the context
    uploads,        \* run_rate_analysis: what the uploaded workbooks hold
    file_paths,     \* run_rate_analysis: file_paths
    card_data,      \* run_rate_analysis: card_data
    transaction_data, \* run_rate_analysis: transaction_data
    warnings,       \* run_rate_analysis: warnings
    report_context, \* run_rate_analysis: report_context
    npc,            \* where run_rate_analysis stands
    section_data,   \* normalize_sections: data
    normalized_data, \* normalize_sections: what it returned
    renormalized_data, \* normalize_sections: what it returned for its own result
    spc,            \* where the normalization stands
    summary_text,   \* process_visa_vs_summary: the text of the summary report
    visa_table,     \* process_visa_vs_summary: the detailed table as loaded
    txt_data,       \* extract_from_text: extracted_data
    pti,            \* extract_from_text: the pattern the loop is at
    visa_summary,   \* process_visa_vs_summary: visa_summary
    checks,         \* process_visa_vs_summary: checks
    cki,            \* process_visa_vs_summary: the key the loop is at
    vpc,            \* where process_visa_vs_summary stands
    arrived,        \* app: how many requests have arrived
    request,        \* app: the request of each id while it is served
    ppc,            \* app: where the serving of each request stands
    pending,        \* app: the value returned or the exception raised so far
    responses,      \* app: the response given to each request
    disk,           \* the files of the working directory
    temp_dirs,      \* the temp directories of /rates-file that exist
    last_output     \* app.py 23: last_output

reconVars ==
    <<bank_in, visa_in, bank_data, visa_data, sections, records, rpc, runs,
      prev_records>>

txtVars == <<line, nread, data, tpc>>

amountVars == <<value, amount, apc>>

headerVars == <<grid, detection_type, hi, header_row, hpc>>

columnVars == <<columns, ci, ri, col_map, renamed, cpc>>

againVars == <<normalized_once, passes>>

feeVars == <<rate_formula, volumes, fee_result, fpc>>

matchVars ==
    <<calculated_fees, invoice_fees, matches, mi, unmatched_calc,
      unmatched_invoice, mpc>>

contextVars ==
    <<mappings, invoice_data, sheet_fees, fee_matches, unified_rows,
      processed_invoice_items, fi, ii, sheets_presentations, bpc,
      other_sheets, statistics>>

analysisVars ==
    <<uploads, file_paths, card_data, transaction_data, warnings, report_context, npc>>

sectionsVars == <<section_data, normalized_data, renormalized_data, spc>>

summaryVars ==
    <<summary_text, visa_table, txt_data, pti, visa_summary, checks, cki, vpc>>

appVars ==
    <<arrived, request, ppc, pending, responses, disk, temp_dirs, last_output>>

laterVars == <<analysisVars, sectionsVars, summaryVars, appVars>>

restVars == <<feeVars, matchVars, contextVars, laterVars>>

otherVars == <<againVars, restVars>>

vars == <<reconVars, txtVars, amountVars, headerVars, columnVars, otherVars>>

exceptReconcile == <<txtVars, amountVars, headerVars, columnVars, otherVars>>
exceptTxt == <<reconVars, amountVars, headerVars, columnVars, otherVars>>
exceptAmount == <<reconVars, txtVars, headerVars, columnVars, otherVars>>
exceptHeader == <<reconVars, txtVars, amountVars, columnVars, otherVars>>
exceptColumns == <<reconVars, txtVars, amountVars, headerVars, otherVars>>
exceptColumnsTwice == <<reconVars, txtVars, amountVars, headerVars, restVars>>
exceptFee ==
    <<reconVars, txtVars, amountVars, headerVars, columnVars, againVars, matchVars,
      contextVars, laterVars>>
exceptMatch ==
    <<reconVars, txtVars, amountVars, headerVars, columnVars, againVars, feeVars,
      contextVars, laterVars>>
exceptContext ==
    <<reconVars, txtVars, amountVars, headerVars, columnVars, againVars, feeVars,
      matchVars, laterVars>>
earlierVars ==
    <<reconVars, txtVars, amountVars, headerVars, columnVars, againVars, feeVars,
      matchVars, contextVars>>
exceptAnalysis == <<earlierVars, sectionsVars, summaryVars, appVars>>
exceptApp == <<earlierVars, analysisVars, sectionsVars, summaryVars>>
exceptSummary == <<earlierVars, analysisVars, sectionsVars, appVars>>
exceptSections == <<earlierVars, analysisVars, summaryVars, appVars>>

\* the parts of the program a specification leaves out stay as they are
IdleReconcile ==
    /\ bank_in = <<>>
    /\ visa_in = <<>>
    /\ bank_data = <<>>
    /\ visa_data = <<>>
    /\ sections = {}
    /\ records = <<>>
    /\ rpc = "idle"
    /\ runs = 0
    /\ prev_records = <<>>

IdleTxt ==
    /\ line = <<>>
    /\ nread = 0
    /\ data = <<>>
    /\ tpc = "idle"

IdleAmount ==
    /\ value = <<>>
    /\ amount = [raised |-> FALSE, ret |-> 0]
    /\ apc = "idle"

IdleHeader ==
    /\ grid = <<>>
    /\ detection_type = "transaction_excel"
    /\ hi = 0
    /\ header_row = <<>>
    /\ hpc = "idle"

IdleColumns ==
    /\ columns = <<>>
    /\ ci = 0
    /\ ri = 0
    /\ col_map = <<>>
    /\ renamed = <<>>
    /\ cpc = "idle"
    /\ normalized_once = <<>>
    /\ passes = 0

IdleFee ==
    /\ rate_formula = <<>>
    /\ volumes = <<Num(0), Num(0), Num(0)>>
    /\ fee_result = UnknownFormula(<<>>)
    /\ fpc = "idle"

IdleMatch ==
    /\ calculated_fees = <<>>
    /\ invoice_fees = <<>>
    /\ matches = <<>>
    /\ mi = 0
    /\ unmatched_calc = <<>>
    /\ unmatched_invoice = <<>>
    /\ mpc = "idle"

IdleContext ==
    /\ mappings = <<>>
    /\ invoice_data = <<>>
    /\ sheet_fees = <<>>
    /\ fee_matches = <<>>
    /\ unified_rows = <<>>
    /\ processed_invoice_items = {}
    /\ fi = 0
    /\ ii = 0
    /\ sheets_presentations = <<>>
    /\ bpc = "idle"
    /\ other_sheets = <<>>
    /\ statistics = <<>>

IdleAnalysis ==
    /\ uploads = <<>>
    /\ file_paths = <<>>
    /\ card_data = <<>>
    /\ transaction_data = <<>>
    /\ warnings = <<>>
    /\ report_context = <<>>
    /\ npc = "idle"

\* the parts the later specifications are about
IdleSections ==
    /\ section_data = <<>>
    /\ normalized_data = <<>>
    /\ renormalized_data = <<>>
    /\ spc = "idle"

IdleSummary ==
    /\ summary_text = <<>>
    /\ visa_table = <<>>
    /\ txt_data = <<>>
    /\ pti = 0
    /\ visa_summary = <<>>
    /\ checks = <<>>
    /\ cki = 0
    /\ vpc = "idle"

IdleApp ==
    /\ arrived = 0
    /\ request = <<>>
    /\ ppc = <<>>
    /\ pending = <<>>
    /\ responses = <<>>
    /\ disk = {}
    /\ temp_dirs = {}
    /\ last_output = <<>>

IdleLater ==
    /\ IdleAnalysis
    /\ IdleSections
    /\ IdleSummary
    /\ IdleApp

\* the parts the earlier specifications are about
IdleEarlier ==
    /\ IdleReconcile
    /\ IdleTxt
    /\ IdleAmount
    /\ IdleHeader
    /\ IdleColumns
    /\ IdleFee
    /\ IdleMatch
    /\ IdleContext

(************************* process_bank_vs_visa ****************************)

InitReconcile ==
    /\ bank_in \in BankSheets
    /\ visa_in \in VisaData
    /\ bank_data = <<>>
    /\ visa_data = <<>>
    /\ sections = {}
    /\ records = <<>>
    /\ rpc = "start"
    /\ runs = 1
    /\ prev_records = <<>>
    /\ IdleTxt
    /\ IdleAmount
    /\ IdleHeader
    /\ IdleColumns
    /\ IdleFee
    /\ IdleMatch
    /\ IdleContext
    /\ IdleLater

\* processors.py 143-144
Extract ==
    /\ rpc = "start"
    /\ bank_data' = extract_values(bank_in)
    /\ visa_data' = visa_in
    /\ rpc' = "extracted"
    /\ UNCHANGED <<bank_in, visa_in, sections, records, runs, prev_records>>
    /\ UNCHANGED exceptReconcile

\* faulty variant: only the sections of the bank side are visited
ReconcileStartBankOnly ==
    /\ rpc = "extracted"
    /\ bank_data' = normalize_sections(bank_data)
    /\ visa_data' = normalize_sections(visa_data)
    /\ sections' = DictKeys(bank_data')
    /\ records' = <<>>
    /\ rpc' = "loop"
    /\ UNCHANGED <<bank_in, visa_in, runs, prev_records>>
    /\ UNCHANGED exceptReconcile

\* reconcile.py 112-116
ReconcileStart ==
    /\ rpc = "extracted"
    /\ bank_data' = normalize_sections(bank_data)
    /\ visa_data' = normalize_sections(visa_data)
    /\ sections' = DictKeys(bank_data') \cup DictKeys(visa_data')
    /\ records' = <<>>
    /\ rpc' = "loop"
    /\ UNCHANGED <<bank_in, visa_in, runs, prev_records>>
    /\ UNCHANGED exceptReconcile

\* reconcile.py 118-136: the set is iterated in no defined order
ReconcileSection ==
    /\ rpc = "loop"
    /\ \E section \in sections :
          /\ records' = records \o SectionRecords(section, bank_data, visa_data)
          /\ sections' = sections \ {section}
    /\ UNCHANGED <<bank_in, visa_in, bank_data, visa_data, rpc, runs, prev_records>>
    /\ UNCHANGED exceptReconcile

\* reconcile.py 138
ReconcileReturn ==
    /\ rpc = "loop"
    /\ sections = {}
    /\ rpc' = "done"
    /\ UNCHANGED <<bank_in, visa_in, bank_data, visa_data, sections, records,
                   runs, prev_records>>
    /\ UNCHANGED exceptReconcile

NextReconcile ==
    \/ Extract
    \/ ReconcileStart
    \/ ReconcileSection
    \/ ReconcileReturn

SpecReconcile == InitReconcile /\ [][NextReconcile]_vars

\* the same two uploads are reconciled again (by a later request, possibly
\* served by another interpreter process)
Rerun ==
    /\ rpc = "done"
    /\ runs = 1
    /\ runs' = 2
    /\ prev_records' = records
    /\ bank_data' = extract_values(bank_in)
    /\ visa_data' = visa_in
    /\ records' = <<>>
    /\ rpc' = "extracted"
    /\ UNCHANGED <<bank_in, visa_in, sections>>
    /\ UNCHANGED exceptReconcile

NextRerun ==
    \/ NextReconcile
    \/ Rerun

SpecRerun == InitReconcile /\ [][NextRerun]_vars

(***************************** extract_from_txt ****************************)

InitTxt ==
    /\ line = <<>>
    /\ nread = 0
    /\ data = <<>>
    /\ tpc = "loop"
    /\ IdleReconcile
    /\ IdleAmount
    /\ IdleHeader
    /\ IdleColumns
    /\ IdleFee
    /\ IdleMatch
    /\ IdleContext
    /\ IdleLater

\* reconcile.py 64-89: the next line of the file goes through the loop body
ReadLine ==
    /\ tpc = "loop"
    /\ nread < MaxLines
    /\ \E l \in ReportLines :
          /\ line' = l
          /\ data' = ProcessLine(data, l)
    /\ nread' = nread + 1
    /\ UNCHANGED tpc
    /\ UNCHANGED exceptTxt

\* reconcile.py 91: the file is exhausted
ReturnData ==
    /\ tpc = "loop"
    /\ tpc' = "done"
    /\ UNCHANGED <<line, nread, data>>
    /\ UNCHANGED exceptTxt

NextTxt ==
    \/ ReadLine
    \/ ReturnData

SpecTxt == InitTxt /\ [][NextTxt]_vars

(******************************* parse_amount ******************************)

InitAmount ==
    /\ value \in Tokens
    /\ amount = [raised |-> FALSE, ret |-> 0]
    /\ apc = "call"
    /\ IdleReconcile
    /\ IdleTxt
    /\ IdleHeader
    /\ IdleColumns
    /\ IdleFee
    /\ IdleMatch
    /\ IdleContext
    /\ IdleLater

\* reconcile.py 38-55
ParseAmount ==
    /\ apc = "call"
    /\ amount' = parse_amount(value)
    /\ apc' = IF amount'.raised THEN "raised" ELSE "returned"
    /\ UNCHANGED value
    /\ UNCHANGED exceptAmount

NextAmount == ParseAmount

SpecAmount == InitAmount /\ [][NextAmount]_vars

(************************ load_excel_with_autodetect ***********************)

InitHeader ==
    /\ grid \in Grids
    /\ detection_type \in DetectionTypes
    /\ hi = 0
    /\ header_row = <<>>
    /\ hpc = "scan"
    /\ IdleReconcile
    /\ IdleTxt
    /\ IdleAmount
    /\ IdleColumns
    /\ IdleFee
    /\ IdleMatch
    /\ IdleContext
    /\ IdleLater

detection_patterns == DictGet(HEADER_DETECTION, detection_type, <<>>)

\* processors.py 41-43: row i does not hold every pattern, the loop goes on
ScanRowNoMatch ==
    /\ hpc = "scan"
    /\ hi < Len(grid)
    /\ ~RowMatches(grid[hi + 1], detection_patterns)
    /\ hi' = hi + 1
    /\ UNCHANGED <<grid, detection_type, header_row, hpc>>
    /\ UNCHANGED exceptHeader

\* processors.py 43-45: row i holds every pattern, the loop is left
ScanRowMatch ==
    /\ hpc = "scan"
    /\ hi < Len(grid)
    /\ RowMatches(grid[hi + 1], detection_patterns)
    /\ header_row' = <<hi>>
    /\ hpc' = "scanned"
    /\ UNCHANGED <<grid, detection_type, hi>>
    /\ UNCHANGED exceptHeader

\* processors.py 41: the rows are exhausted
ScanEnd ==
    /\ hpc = "scan"
    /\ hi = Len(grid)
    /\ hpc' = "scanned"
    /\ UNCHANGED <<grid, detection_type, hi, header_row>>
    /\ UNCHANGED exceptHeader

\* processors.py 47-48
RaiseNoHeader ==
    /\ hpc = "scanned"
    /\ header_row = <<>>
    /\ hpc' = "ValueError"
    /\ UNCHANGED <<grid, detection_type, hi, header_row>>
    /\ UNCHANGED exceptHeader

\* processors.py 50
ReturnTable ==
    /\ hpc = "scanned"
    /\ header_row # <<>>
    /\ hpc' = "returned"
    /\ UNCHANGED <<grid, detection_type, hi, header_row>>
    /\ UNCHANGED exceptHeader

NextHeader ==
    \/ ScanRowNoMatch
    \/ ScanRowMatch
    \/ ScanEnd
    \/ RaiseNoHeader
    \/ ReturnTable

SpecHeader == InitHeader /\ [][NextHeader]_vars

(***************************** normalize_columns ***************************)

InitColumns ==
    /\ columns \in ColumnLists
    /\ ci = 0
    /\ ri = 0
    /\ col_map = <<>>
    /\ renamed = <<>>
    /\ cpc = "loop"
    /\ normalized_once = <<>>
    /\ passes = 1
    /\ IdleReconcile
    /\ IdleTxt
    /\ IdleAmount
    /\ IdleHeader
    /\ IdleFee
    /\ IdleMatch
    /\ IdleContext
    /\ IdleLater

\* processors.py 27-28: the mapping at hand has no pattern in the label
MappingSkipped ==
    /\ cpc = "loop"
    /\ ci < Len(columns)
    /\ ri < Len(COLUMN_MAPPINGS)
    /\ ~MappingMatches(COLUMN_MAPPINGS[ri + 1], CleanColumn(columns[ci + 1]))
    /\ ri' = ri + 1
    /\ UNCHANGED <<columns, ci, col_map, renamed, cpc>>
    /\ UNCHANGED exceptColumns

\* faulty variant: the label is given the target of the rule after the one
\* that matched
MappingTakenNextTarget ==
    /\ cpc = "loop"
    /\ ci < Len(columns)
    /\ ri < Len(COLUMN_MAPPINGS)
    /\ MappingMatches(COLUMN_MAPPINGS[ri + 1], CleanColumn(columns[ci + 1]))
    /\ col_map' = DictSet(col_map, columns[ci + 1],
                          COLUMN_MAPPINGS[((ri + 1) % Len(COLUMN_MAPPINGS)) + 1].target)
    /\ ci' = ci + 1
    /\ ri' = 0
    /\ UNCHANGED <<columns, renamed, cpc>>
    /\ UNCHANGED exceptColumns

\* processors.py 28-30: it has one, the label is mapped and the inner loop left
MappingTaken ==
    /\ cpc = "loop"
    /\ ci < Len(columns)
    /\ ri < Len(COLUMN_MAPPINGS)
    /\ MappingMatches(COLUMN_MAPPINGS[ri + 1], CleanColumn(columns[ci + 1]))
    /\ col_map' = DictSet(col_map, columns[ci + 1], COLUMN_MAPPINGS[ri + 1].target)
    /\ ci' = ci + 1
    /\ ri' = 0
    /\ UNCHANGED <<columns, renamed, cpc>>
    /\ UNCHANGED exceptColumns

\* processors.py 27: the mappings are exhausted, the label stays unmapped
MappingsExhausted ==
    /\ cpc = "loop"
    /\ ci < Len(columns)
    /\ ri = Len(COLUMN_MAPPINGS)
    /\ ci' = ci + 1
    /\ ri' = 0
    /\ UNCHANGED <<columns, col_map, renamed, cpc>>
    /\ UNCHANGED exceptColumns

\* processors.py 32
ReturnRenamed ==
    /\ cpc = "loop"
    /\ ci = Len(columns)
    /\ renamed' = rename(columns, col_map)
    /\ cpc' = "returned"
    /\ UNCHANGED <<columns, ci, ri, col_map>>
    /\ UNCHANGED exceptColumns

NextColumns ==
    \/ MappingSkipped
    \/ MappingTaken
    \/ MappingsExhausted
    \/ ReturnRenamed

SpecColumns == InitColumns /\ [][NextColumns]_vars

\* normalize_columns is applied to the frame it returned
NormalizeAgain ==
    /\ cpc = "returned"
    /\ passes = 1
    /\ passes' = 2
    /\ normalized_once' = renamed
    /\ columns' = renamed
    /\ ci' = 0
    /\ ri' = 0
    /\ col_map' = <<>>
    /\ renamed' = <<>>
    /\ cpc' = "loop"
    /\ UNCHANGED exceptColumnsTwice

NextColumnsTwice ==
    \/ NextColumns
    \/ NormalizeAgain

SpecColumnsTwice == InitColumns /\ [][NextColumnsTwice]_vars

(**************************** calculate_fee_amount **************************)

InitFee ==
    /\ rate_formula \in RateFormulas
    /\ volumes \in Volumes
    /\ fee_result = UnknownFormula(<<>>)
    /\ fpc = "call"
    /\ IdleReconcile
    /\ IdleTxt
    /\ IdleAmount
    /\ IdleHeader
    /\ IdleColumns
    /\ IdleMatch
    /\ IdleContext
    /\ IdleLater

card_count == volumes[1]
transaction_count == volumes[2]
transaction_amount == volumes[3]

\* rate_tool_app.py 413
Trimmed == strip_whitespace(rate_formula)

\* the call returns result
Return(result) ==
    /\ fee_result' = result
    /\ fpc' = "returned"
    /\ UNCHANGED <<rate_formula, volumes>>
    /\ UNCHANGED exceptFee

\* rate_tool_app.py 416-418
TieredCard ==
    /\ fpc = "call"
    /\ FormulaKind(Trimmed) = "tiered"
    /\ Return(calculate_tiered_card_fee(Trimmed, card_count))

\* rate_tool_app.py 420-422
PerTransaction ==
    /\ fpc = "call"
    /\ FormulaKind(Trimmed) = "per transaction"
    /\ Return(calculate_per_transaction_fee(Trimmed, transaction_count))

\* rate_tool_app.py 424-426
PerDispute ==
    /\ fpc = "call"
    /\ FormulaKind(Trimmed) = "per dispute"
    /\ Return(calculate_per_dispute_fee(Trimmed, transaction_count))

\* rate_tool_app.py 428-430
TransactionVolume ==
    /\ fpc = "call"
    /\ FormulaKind(Trimmed) = "transaction volume"
    /\ Return(calculate_transaction_volume_fee(Trimmed, transaction_count))

\* rate_tool_app.py 432-434
TransactionAmount ==
    /\ fpc = "call"
    /\ FormulaKind(Trimmed) = "transaction amount"
    /\ Return(calculate_transaction_amount_fee(Trimmed, transaction_amount))

\* rate_tool_app.py 436-443
Fixed ==
    /\ fpc = "call"
    /\ FormulaKind(Trimmed) = "fixed"
    /\ Return(FixedAmount(Trimmed))

\* rate_tool_app.py 445-451
Unknown ==
    /\ fpc = "call"
    /\ FormulaKind(Trimmed) = "unknown"
    /\ Return(UnknownFormula(Trimmed))

NextFee ==
    \/ TieredCard
    \/ PerTransaction
    \/ PerDispute
    \/ TransactionVolume
    \/ TransactionAmount
    \/ Fixed
    \/ Unknown

SpecFee == InitFee /\ [][NextFee]_vars

(*************************** fuzzy_match_fee_types **************************)

InitMatch ==
    /\ calculated_fees \in CalculatedLists
    /\ invoice_fees \in InvoiceLists
    /\ matches = <<>>
    /\ mi = 0
    /\ unmatched_calc = <<>>
    /\ unmatched_invoice = <<>>
    /\ mpc = "exact"
    /\ IdleReconcile
    /\ IdleTxt
    /\ IdleAmount
    /\ IdleHeader
    /\ IdleColumns
    /\ IdleFee
    /\ IdleContext
    /\ IdleLater

\* rate_tool_integration.py 253-257: an invoice fee has the same normalized name
ExactMatched ==
    /\ mpc = "exact"
    /\ mi < Len(calculated_fees)
    /\ ExactMatch(calculated_fees[mi + 1], invoice_fees) # <<>>
    /\ matches' = DictSet(matches, calculated_fees[mi + 1],
                          ExactMatch(calculated_fees[mi + 1], invoice_fees)[1])
    /\ mi' = mi + 1
    /\ UNCHANGED <<calculated_fees, invoice_fees, unmatched_calc, unmatched_invoice, mpc>>
    /\ UNCHANGED exceptMatch

\* rate_tool_integration.py 253-255: none has
ExactUnmatched ==
    /\ mpc = "exact"
    /\ mi < Len(calculated_fees)
    /\ ExactMatch(calculated_fees[mi + 1], invoice_fees) = <<>>
    /\ mi' = mi + 1
    /\ UNCHANGED <<calculated_fees, invoice_fees, matches, unmatched_calc,
                   unmatched_invoice, mpc>>
    /\ UNCHANGED exceptMatch

\* rate_tool_integration.py 260-261
PartialStart ==
    /\ mpc = "exact"
    /\ mi = Len(calculated_fees)
    /\ unmatched_calc' = not_in_keys(calculated_fees, matches)
    /\ unmatched_invoice' = not_in_values(invoice_fees, matches)
    /\ mi' = 0
    /\ mpc' = "partial"
    /\ UNCHANGED <<calculated_fees, invoice_fees, matches>>
    /\ UNCHANGED exceptMatch

\* rate_tool_integration.py 263-285: the fee has a best match
PartialMatched ==
    /\ mpc = "partial"
    /\ mi < Len(unmatched_calc)
    /\ HasBestMatch(unmatched_calc[mi + 1], unmatched_invoice)
    /\ matches' = DictSet(matches, unmatched_calc[mi + 1],
                          BestMatch(unmatched_calc[mi + 1], unmatched_invoice)[1])
    /\ mi' = mi + 1
    /\ UNCHANGED <<calculated_fees, invoice_fees, unmatched_calc, unmatched_invoice, mpc>>
    /\ UNCHANGED exceptMatch

\* rate_tool_integration.py 263-284: it has none
PartialUnmatched ==
    /\ mpc = "partial"
    /\ mi < Len(unmatched_calc)
    /\ ~HasBestMatch(unmatched_calc[mi + 1], unmatched_invoice)
    /\ mi' = mi + 1
    /\ UNCHANGED <<calculated_fees, invoice_fees, matches, unmatched_calc,
                   unmatched_invoice, mpc>>
    /\ UNCHANGED exceptMatch

\* rate_tool_integration.py 287
ReturnMatches ==
    /\ mpc = "partial"
    /\ mi = Len(unmatched_calc)
    /\ mpc' = "returned"
    /\ UNCHANGED <<calculated_fees, invoice_fees, matches, mi, unmatched_calc,
                   unmatched_invoice>>
    /\ UNCHANGED exceptMatch

NextMatch ==
    \/ ExactMatched
    \/ ExactUnmatched
    \/ PartialStart
    \/ PartialMatched
    \/ PartialUnmatched
    \/ ReturnMatches

SpecMatch == InitMatch /\ [][NextMatch]_vars

(**************************** build_result_context **************************)

InitContext ==
    /\ mappings \in SheetMappings
    /\ invoice_data \in Invoices
    /\ sheet_fees = <<>>
    /\ fee_matches = <<>>
    /\ unified_rows = <<>>
    /\ processed_invoice_items = {}
    /\ fi = 0
    /\ ii = 0
    /\ sheets_presentations = <<>>
    /\ bpc = "sheet"
    /\ other_sheets \in OtherSheets
    /\ statistics = <<>>
    /\ IdleReconcile
    /\ IdleTxt
    /\ IdleAmount
    /\ IdleHeader
    /\ IdleColumns
    /\ IdleFee
    /\ IdleMatch
    /\ IdleLater

\* rate_tool_integration.py 313-317: a sheet without mappings is passed over
SkipSheet ==
    /\ bpc = "sheet"
    /\ mappings = <<>>
    /\ bpc' = "done"
    /\ UNCHANGED <<mappings, invoice_data, sheet_fees, fee_matches, unified_rows,
                   processed_invoice_items, fi, ii, sheets_presentations>>
    /\ UNCHANGED <<other_sheets, statistics>>
    /\ UNCHANGED exceptContext

\* rate_tool_integration.py 319-370
BuildCalculatedFees ==
    /\ bpc = "sheet"
    /\ mappings # <<>>
    /\ sheet_fees' = calculated_fees_from(mappings, Len(mappings), CardData, TransactionData)
    /\ bpc' = "match"
    /\ UNCHANGED <<mappings, invoice_data, fee_matches, unified_rows,
                   processed_invoice_items, fi, ii, sheets_presentations>>
    /\ UNCHANGED <<other_sheets, statistics>>
    /\ UNCHANGED exceptContext

\* rate_tool_integration.py 373-392
MatchFees ==
    /\ bpc = "match"
    /\ fee_matches' = FeeMatches(sheet_fees, invoice_data)
    /\ bpc' = "rows"
    /\ UNCHANGED <<mappings, invoice_data, sheet_fees, unified_rows,
                   processed_invoice_items, fi, ii, sheets_presentations>>
    /\ UNCHANGED <<other_sheets, statistics>>
    /\ UNCHANGED exceptContext

\* rate_tool_integration.py 395-448: the fee has a matching invoice item
CalculatedRowMatched ==
    /\ bpc = "rows"
    /\ fi < Len(sheet_fees)
    /\ DictGet(fee_matches, sheet_fees[fi + 1][1], <<>>) # <<>>
    /\ processed_invoice_items' =
           processed_invoice_items \cup {DictGet(fee_matches, sheet_fees[fi + 1][1], <<>>)}
    /\ unified_rows' = Append(unified_rows,
                              CalculatedRow(sheet_fees[fi + 1][1], sheet_fees[fi + 1][2],
                                            fee_matches, invoice_data))
    /\ fi' = fi + 1
    /\ UNCHANGED <<mappings, invoice_data, sheet_fees, fee_matches, ii,
                   sheets_presentations, bpc>>
    /\ UNCHANGED <<other_sheets, statistics>>
    /\ UNCHANGED exceptContext

\* rate_tool_integration.py 395-448: it has none
CalculatedRowUnmatched ==
    /\ bpc = "rows"
    /\ fi < Len(sheet_fees)
    /\ DictGet(fee_matches, sheet_fees[fi + 1][1], <<>>) = <<>>
    /\ unified_rows' = Append(unified_rows,
                              CalculatedRow(sheet_fees[fi + 1][1], sheet_fees[fi + 1][2],
                                            fee_matches, invoice_data))
    /\ fi' = fi + 1
    /\ UNCHANGED <<mappings, invoice_data, sheet_fees, fee_matches,
                   processed_invoice_items, ii, sheets_presentations, bpc>>
    /\ UNCHANGED <<other_sheets, statistics>>
    /\ UNCHANGED exceptContext

\* rate_tool_integration.py 451-469: an invoice item no row has taken
InvoiceRowMissing ==
    /\ bpc = "rows"
    /\ fi = Len(sheet_fees)
    /\ ii < Len(invoice_data)
    /\ invoice_data[ii + 1][1] \notin processed_invoice_items
    /\ unified_rows' = Append(unified_rows,
                              InvoiceRow(invoice_data[ii + 1][1], invoice_data[ii + 1][2]))
    /\ ii' = ii + 1
    /\ UNCHANGED <<mappings, invoice_data, sheet_fees, fee_matches,
                   processed_invoice_items, fi, sheets_presentations, bpc>>
    /\ UNCHANGED <<other_sheets, statistics>>
    /\ UNCHANGED exceptContext

\* rate_tool_integration.py 452-454: an invoice item a row has taken
InvoiceRowProcessed ==
    /\ bpc = "rows"
    /\ fi = Len(sheet_fees)
    /\ ii < Len(invoice_data)
    /\ invoice_data[ii + 1][1] \in processed_invoice_items
    /\ ii' = ii + 1
    /\ UNCHANGED <<mappings, invoice_data, sheet_fees, fee_matches, unified_rows,
                   processed_invoice_items, fi, sheets_presentations, bpc>>
    /\ UNCHANGED <<other_sheets, statistics>>
    /\ UNCHANGED exceptContext

\* rate_tool_integration.py 471-477
AppendSheet ==
    /\ bpc = "rows"
    /\ fi = Len(sheet_fees)
    /\ ii = Len(invoice_data)
    /\ sheets_presentations' =
           IF unified_rows # <<>>
           THEN Append(sheets_presentations,
                       [rows |-> unified_rows, calculated_fees |-> sheet_fees])
           ELSE sheets_presentations
    /\ bpc' = "done"
    /\ UNCHANGED <<mappings, invoice_data, sheet_fees, fee_matches, unified_rows,
                   processed_invoice_items, fi, ii>>
    /\ UNCHANGED <<other_sheets, statistics>>
    /\ UNCHANGED exceptContext

\* rate_tool_integration.py 311: the loop takes the next sheet
NextSheet ==
    /\ bpc = "done"
    /\ other_sheets # <<>>
    /\ mappings' = Head(other_sheets)
    /\ other_sheets' = Tail(other_sheets)
    /\ sheet_fees' = <<>>
    /\ fee_matches' = <<>>
    /\ unified_rows' = <<>>
    /\ processed_invoice_items' = {}
    /\ fi' = 0
    /\ ii' = 0
    /\ bpc' = "sheet"
    /\ UNCHANGED <<invoice_data, sheets_presentations, statistics>>
    /\ UNCHANGED exceptContext

\* rate_tool_integration.py 479-519: after the last sheet
Statistics ==
    /\ bpc = "done"
    /\ other_sheets = <<>>
    /\ statistics' = StatisticsOf(sheets_presentations, invoice_data)
    /\ bpc' = "returned"
    /\ UNCHANGED <<mappings, invoice_data, sheet_fees, fee_matches, unified_rows,
                   processed_invoice_items, fi, ii, sheets_presentations, other_sheets>>
    /\ UNCHANGED exceptContext

NextContext ==
    \/ SkipSheet
    \/ BuildCalculatedFees
    \/ MatchFees
    \/ CalculatedRowMatched
    \/ CalculatedRowUnmatched
    \/ InvoiceRowMissing
    \/ InvoiceRowProcessed
    \/ AppendSheet
    \/ NextSheet
    \/ Statistics

SpecContext == InitContext /\ [][NextContext]_vars

(***************************** run_rate_analysis ****************************)

InitAnalysis ==
    /\ uploads \in Uploads
    /\ file_paths = FilePaths(uploads)
    /\ card_data = <<>>
    /\ transaction_data = <<>>
    /\ warnings = <<>>
    /\ report_context = <<>>
    /\ npc = "card"
    /\ IdleEarlier
    /\ IdleSections
    /\ IdleSummary
    /\ IdleApp

\* rate_tool_integration.py 598-599: no card workbook, card_data stays None
CardSkipped ==
    /\ npc = "card"
    /\ ~file_paths.card
    /\ card_data' = <<>>
    /\ npc' = "transactions"
    /\ UNCHANGED <<uploads, file_paths, transaction_data, warnings, report_context>>
    /\ UNCHANGED exceptAnalysis

\* rate_tool_integration.py 599-601: the card workbook holds issued cards
CardExtracted ==
    /\ npc = "card"
    /\ file_paths.card
    /\ extract_card_issuance_data(uploads.card) # <<>>
    /\ extract_card_issuance_data(uploads.card)[1] # 0
    /\ card_data' = extract_card_issuance_data(uploads.card)
    /\ npc' = "transactions"
    /\ UNCHANGED <<uploads, file_paths, transaction_data, warnings, report_context>>
    /\ UNCHANGED exceptAnalysis

\* rate_tool_integration.py 601-603: the card workbook gives no cards
CardWithoutData ==
    /\ npc = "card"
    /\ file_paths.card
    /\ \/ extract_card_issuance_data(uploads.card) = <<>>
       \/ /\ extract_card_issuance_data(uploads.card) # <<>>
          /\ extract_card_issuance_data(uploads.card)[1] = 0
    /\ warnings' = Append(warnings,
           "No card issuance data found or total cards is 0. Proceeding with fee rate mapping only.")
    /\ card_data' = <<>>
    /\ npc' = "transactions"
    /\ UNCHANGED <<uploads, file_paths, transaction_data, report_context>>
    /\ UNCHANGED exceptAnalysis

\* rate_tool_integration.py 605-638: the buckets hold some volume
TransactionsFound ==
    /\ npc = "transactions"
    /\ DictGet(TransactionBuckets(file_paths, uploads), "all_transactions", ZeroBucket).total_volume # 0
    /\ transaction_data' = TransactionBuckets(file_paths, uploads)
    /\ npc' = "invoice"
    /\ UNCHANGED <<uploads, file_paths, card_data, warnings, report_context>>
    /\ UNCHANGED exceptAnalysis

\* rate_tool_integration.py 605-640: no volume at all, transaction_data is None
NoTransactions ==
    /\ npc = "transactions"
    /\ DictGet(TransactionBuckets(file_paths, uploads), "all_transactions", ZeroBucket).total_volume = 0
    /\ warnings' = Append(warnings, "No transaction data found.")
    /\ transaction_data' = <<>>
    /\ npc' = "invoice"
    /\ UNCHANGED <<uploads, file_paths, card_data, report_context>>
    /\ UNCHANGED exceptAnalysis

\* rate_tool_integration.py 643-644: invoice items were found
InvoiceFound ==
    /\ npc = "invoice"
    /\ extract_invoice_data_dynamically(uploads)
    /\ npc' = "context"
    /\ UNCHANGED <<uploads, file_paths, card_data, transaction_data, warnings,
                   report_context>>
    /\ UNCHANGED exceptAnalysis

\* rate_tool_integration.py 644-646: no invoice items and no invoice workbook
NoInvoiceFile ==
    /\ npc = "invoice"
    /\ ~extract_invoice_data_dynamically(uploads)
    /\ ~file_paths.invoice
    /\ warnings' = Append(warnings,
           "No invoice file uploaded. VISA Amount column will show 'N/A' for all items.")
    /\ npc' = "context"
    /\ UNCHANGED <<uploads, file_paths, card_data, transaction_data, report_context>>
    /\ UNCHANGED exceptAnalysis

\* rate_tool_integration.py 647-648: an invoice workbook without items
NoInvoiceData ==
    /\ npc = "invoice"
    /\ ~extract_invoice_data_dynamically(uploads)
    /\ file_paths.invoice
    /\ warnings' = Append(warnings,
           "No invoice data found in uploaded files. Please check the invoice file format.")
    /\ npc' = "context"
    /\ UNCHANGED <<uploads, file_paths, card_data, transaction_data, report_context>>
    /\ UNCHANGED exceptAnalysis

\* rate_tool_integration.py 650-651: the context built from what was gathered
ReturnContext ==
    /\ npc = "context"
    /\ report_context' =
           [warnings |-> warnings,
            card_data |-> card_data,
            transaction_data |-> transaction_data,
            calculated_fees |->
                calculated_fees_from(RateChart, Len(RateChart), card_data,
                                     transaction_data)]
    /\ npc' = "returned"
    /\ UNCHANGED <<uploads, file_paths, card_data, transaction_data, warnings>>
    /\ UNCHANGED exceptAnalysis

NextAnalysis ==
    \/ CardSkipped
    \/ CardExtracted
    \/ CardWithoutData
    \/ TransactionsFound
    \/ NoTransactions
    \/ InvoiceFound
    \/ NoInvoiceFile
    \/ NoInvoiceData
    \/ ReturnContext

SpecAnalysis == InitAnalysis /\ [][NextAnalysis]_vars

(***************************** normalize_sections ***************************)

InitSections ==
    /\ section_data \in SectionData
    /\ normalized_data = <<>>
    /\ renormalized_data = <<>>
    /\ spc = "start"
    /\ IdleEarlier
    /\ IdleAnalysis
    /\ IdleSummary
    /\ IdleApp

\* reconcile.py 104-109
NormalizeSections ==
    /\ spc = "start"
    /\ normalized_data' = normalize_sections(section_data)
    /\ spc' = "once"
    /\ UNCHANGED <<section_data, renormalized_data>>
    /\ UNCHANGED exceptSections

\* reconcile.py 104-109, called with the dict it returned
NormalizeSectionsAgain ==
    /\ spc = "once"
    /\ renormalized_data' = normalize_sections(normalized_data)
    /\ spc' = "twice"
    /\ UNCHANGED <<section_data, normalized_data>>
    /\ UNCHANGED exceptSections

NextSections ==
    \/ NormalizeSections
    \/ NormalizeSectionsAgain

SpecSections == InitSections /\ [][NextSections]_vars

(*************************** process_visa_vs_summary ************************)

InitSummary ==
    /\ summary_text \in SummaryTexts
    /\ visa_table \in VisaTables
    /\ txt_data = <<>>
    /\ pti = 1
    /\ visa_summary = <<>>
    /\ checks = <<>>
    /\ cki = 0
    /\ vpc = "extract"
    /\ IdleEarlier
    /\ IdleAnalysis
    /\ IdleSections
    /\ IdleApp

\* processors.py 70-80: the pattern of the next field matches
FieldMatched ==
    /\ vpc = "extract"
    /\ pti <= Len(TEXT_PATTERNS)
    /\ search(TEXT_PATTERNS[pti], summary_text) # <<>>
    /\ txt_data' = DictSet(txt_data, format_field_name(TEXT_PATTERNS[pti]),
                           FieldValue(TEXT_PATTERNS[pti], summary_text))
    /\ pti' = pti + 1
    /\ UNCHANGED <<summary_text, visa_table, visa_summary, checks, cki, vpc>>
    /\ UNCHANGED exceptSummary

\* processors.py 70-82: the pattern of the next field does not match
FieldUnmatched ==
    /\ vpc = "extract"
    /\ pti <= Len(TEXT_PATTERNS)
    /\ search(TEXT_PATTERNS[pti], summary_text) = <<>>
    /\ txt_data' = DictSet(txt_data, format_field_name(TEXT_PATTERNS[pti]), PyNone)
    /\ pti' = pti + 1
    /\ UNCHANGED <<summary_text, visa_table, visa_summary, checks, cki, vpc>>
    /\ UNCHANGED exceptSummary

\* processors.py 84
ReturnExtracted ==
    /\ vpc = "extract"
    /\ pti > Len(TEXT_PATTERNS)
    /\ vpc' = "load"
    /\ UNCHANGED <<summary_text, visa_table, txt_data, pti, visa_summary, checks, cki>>
    /\ UNCHANGED exceptSummary

\* processors.py 172, 47-48: no header row in the workbook, ValueError
HeaderMissing ==
    /\ vpc = "load"
    /\ ~visa_table.header
    /\ vpc' = "raised"
    /\ UNCHANGED <<summary_text, visa_table, txt_data, pti, visa_summary, checks, cki>>
    /\ UNCHANGED exceptSummary

\* processors.py 172-189
Summarize ==
    /\ vpc = "load"
    /\ visa_table.header
    /\ visa_summary' = VisaSummary(visa_table)
    /\ checks' = <<>>
    /\ cki' = 1
    /\ vpc' = "compare"
    /\ UNCHANGED <<summary_text, visa_table, txt_data, pti>>
    /\ UNCHANGED exceptSummary

\* processors.py 190-199: the two values of the next key are equal
CheckMatch ==
    /\ vpc = "compare"
    /\ cki <= Len(txt_data)
    /\ CheckRow(txt_data[cki][1], visa_summary, txt_data).Status = "Match"
    /\ checks' = Append(checks, CheckRow(txt_data[cki][1], visa_summary, txt_data))
    /\ cki' = cki + 1
    /\ UNCHANGED <<summary_text, visa_table, txt_data, pti, visa_summary, vpc>>
    /\ UNCHANGED exceptSummary

\* processors.py 190-199: the two values of the next key differ
CheckMismatch ==
    /\ vpc = "compare"
    /\ cki <= Len(txt_data)
    /\ CheckRow(txt_data[cki][1], visa_summary, txt_data).Status = "Mismatch"
    /\ checks' = Append(checks, CheckRow(txt_data[cki][1], visa_summary, txt_data))
    /\ cki' = cki + 1
    /\ UNCHANGED <<summary_text, visa_table, txt_data, pti, visa_summary, vpc>>
    /\ UNCHANGED exceptSummary

\* processors.py 201
ReturnChecks ==
    /\ vpc = "compare"
    /\ cki > Len(txt_data)
    /\ vpc' = "returned"
    /\ UNCHANGED <<summary_text, visa_table, txt_data, pti, visa_summary, checks, cki>>
    /\ UNCHANGED exceptSummary

NextSummary ==
    \/ FieldMatched
    \/ FieldUnmatched
    \/ ReturnExtracted
    \/ HeaderMissing
    \/ Summarize
    \/ CheckMatch
    \/ CheckMismatch
    \/ ReturnChecks

SpecSummary == InitSummary /\ [][NextSummary]_vars

(************************************ app ***********************************)

Ids == 1..MaxRequests

InitApp ==
    /\ arrived = 0
    /\ request = [r \in Ids |-> <<>>]
    /\ ppc = [r \in Ids |-> "none"]
    /\ pending = [r \in Ids |-> <<>>]
    /\ responses = [r \in Ids |-> <<>>]
    /\ disk = {}
    /\ temp_dirs = {}
    /\ last_output = <<>>
    /\ IdleEarlier
    /\ IdleAnalysis
    /\ IdleSections
    /\ IdleSummary

\* the route a request is dispatched to
Route(req) ==
    IF req.kind = "index" THEN "index"
    ELSE IF req.kind = "process" THEN "process"
    ELSE IF req.kind = "download" THEN "download"
    ELSE "rates"

\* the next request arrives once the previous ones have been answered
Arrive(r) ==
    /\ r = arrived + 1
    /\ \A q \in 1..(r - 1) : ppc[q] = "done"
    /\ \E req \in Requests :
          /\ request' = [request EXCEPT ![r] = req]
          /\ ppc' = [ppc EXCEPT ![r] = Route(req)]
    /\ arrived' = r
    /\ UNCHANGED <<pending, responses, disk, temp_dirs, last_output>>
    /\ UNCHANGED exceptApp

\* the next request arrives while earlier ones are still being served
ArriveInParallel(r) ==
    /\ r = arrived + 1
    /\ r <= MaxParallel
    /\ \E req \in Requests :
          /\ request' = [request EXCEPT ![r] = req]
          /\ ppc' = [ppc EXCEPT ![r] = Route(req)]
    /\ arrived' = r
    /\ UNCHANGED <<pending, responses, disk, temp_dirs, last_output>>
    /\ UNCHANGED exceptApp

\* app.py 33-37, 46-54: the type is not a configured one
IndexInvalidType(r) ==
    /\ ppc[r] = "index"
    /\ ~validate_reconciliation_type(request[r].form.recon_type)
    /\ responses' = [responses EXCEPT ![r] = [kind |-> "index", status |-> "error", data |-> <<>>, message |-> <<"Please select a valid reconciliation type.">>]]
    /\ ppc' = [ppc EXCEPT ![r] = "done"]
    /\ request' = [request EXCEPT ![r] = <<>>]
    /\ UNCHANGED <<arrived, pending, disk, temp_dirs, last_output>>
    /\ UNCHANGED exceptApp

\* app.py 38-40
IndexCallsProcess(r) ==
    /\ ppc[r] = "index"
    /\ validate_reconciliation_type(request[r].form.recon_type)
    /\ ppc' = [ppc EXCEPT ![r] = "process"]
    /\ UNCHANGED <<arrived, request, pending, responses, disk, temp_dirs, last_output>>
    /\ UNCHANGED exceptApp

\* processors.py 109-112
ProcessUnknownType(r) ==
    /\ ppc[r] = "process"
    /\ DictGet(RECONCILIATION_TYPES, request[r].form.recon_type, <<>>) = <<>>
    /\ pending' = [pending EXCEPT ![r] = [raised |-> TRUE, value |-> <<>>, message |-> <<"Unknown reconciliation type: {}", request[r].form.recon_type>>]]
    /\ ppc' = [ppc EXCEPT ![r] = "raised"]
    /\ UNCHANGED <<arrived, request, responses, disk, temp_dirs, last_output>>
    /\ UNCHANGED exceptApp

\* processors.py 114-117
ProcessInvalidFiles(r) ==
    /\ ppc[r] = "process"
    /\ DictGet(RECONCILIATION_TYPES, request[r].form.recon_type, <<>>) # <<>>
    /\ validate_files(request[r].form.files, request[r].form.recon_type) # <<>>
    /\ pending' = [pending EXCEPT ![r] = [raised |-> TRUE, value |-> <<>>, message |-> validate_files(request[r].form.files, request[r].form.recon_type)]]
    /\ ppc' = [ppc EXCEPT ![r] = "raised"]
    /\ UNCHANGED <<arrived, request, responses, disk, temp_dirs, last_output>>
    /\ UNCHANGED exceptApp

\* processors.py 119-127: the processor of the type is called
ProcessDispatch(r) ==
    /\ ppc[r] = "process"
    /\ DictGet(RECONCILIATION_TYPES, request[r].form.recon_type, <<>>) # <<>>
    /\ validate_files(request[r].form.files, request[r].form.recon_type) = <<>>
    /\ ppc' = [ppc EXCEPT ![r] = "save first"]
    /\ UNCHANGED <<arrived, request, pending, responses, disk, temp_dirs, last_output>>
    /\ UNCHANGED exceptApp

\* processors.py 131-138 (157-164, 211-218): the first upload is staged
SaveFirst(r) ==
    /\ ppc[r] = "save first"
    /\ CanSave(TempPath(UploadOf(request[r].form, 1)))
    /\ disk' = Written(disk, TempPath(UploadOf(request[r].form, 1)), r, UploadOf(request[r].form, 1).holds)
    /\ ppc' = [ppc EXCEPT ![r] = "save second"]
    /\ UNCHANGED <<arrived, request, pending, responses, temp_dirs, last_output>>
    /\ UNCHANGED exceptApp

\* processors.py 138 (164, 218): the first path cannot be written
SaveFirstRaises(r) ==
    /\ ppc[r] = "save first"
    /\ ~CanSave(TempPath(UploadOf(request[r].form, 1)))
    /\ pending' = [pending EXCEPT ![r] = [raised |-> TRUE, value |-> <<>>, message |-> <<"FileNotFoundError">>]]
    /\ ppc' = [ppc EXCEPT ![r] = "raised"]
    /\ UNCHANGED <<arrived, request, responses, disk, temp_dirs, last_output>>
    /\ UNCHANGED exceptApp

\* processors.py 139 (165, 219): the second upload is staged
SaveSecond(r) ==
    /\ ppc[r] = "save second"
    /\ CanSave(TempPath(UploadOf(request[r].form, 2)))
    /\ disk' = Written(disk, TempPath(UploadOf(request[r].form, 2)), r, UploadOf(request[r].form, 2).holds)
    /\ ppc' = [ppc EXCEPT ![r] = "work"]
    /\ UNCHANGED <<arrived, request, pending, responses, temp_dirs, last_output>>
    /\ UNCHANGED exceptApp

\* processors.py 139 (165, 219): the second path cannot be written; the call
\* is not yet inside the try statement
SaveSecondRaises(r) ==
    /\ ppc[r] = "save second"
    /\ ~CanSave(TempPath(UploadOf(request[r].form, 2)))
    /\ pending' = [pending EXCEPT ![r] = [raised |-> TRUE, value |-> <<>>, message |-> <<"FileNotFoundError">>]]
    /\ ppc' = [ppc EXCEPT ![r] = "raised"]
    /\ UNCHANGED <<arrived, request, responses, disk, temp_dirs, last_output>>
    /\ UNCHANGED exceptApp

\* processors.py 141-147 (167-201, 221-266): the staged files are read and compared
WorkReturns(r) ==
    /\ ppc[r] = "work"
    /\ ~WorkRaisesOn(FileAt(disk, TempPath(UploadOf(request[r].form, 1))), FileAt(disk, TempPath(UploadOf(request[r].form, 2))))
    /\ pending' = [pending EXCEPT ![r] = [raised |-> FALSE, value |-> WorkResult(FileAt(disk, TempPath(UploadOf(request[r].form, 1))), FileAt(disk, TempPath(UploadOf(request[r].form, 2)))), message |-> <<>>]]
    /\ ppc' = [ppc EXCEPT ![r] = "finally"]
    /\ UNCHANGED <<arrived, request, responses, disk, temp_dirs, last_output>>
    /\ UNCHANGED exceptApp

\* processors.py 141-147 (167-201, 221-266): a staged file is gone or cannot be parsed
WorkRaises(r) ==
    /\ ppc[r] = "work"
    /\ WorkRaisesOn(FileAt(disk, TempPath(UploadOf(request[r].form, 1))), FileAt(disk, TempPath(UploadOf(request[r].form, 2))))
    /\ pending' = [pending EXCEPT ![r] = [raised |-> TRUE, value |-> <<>>, message |-> <<"Exception">>]]
    /\ ppc' = [ppc EXCEPT ![r] = "finally"]
    /\ UNCHANGED <<arrived, request, responses, disk, temp_dirs, last_output>>
    /\ UNCHANGED exceptApp

\* processors.py 148-153 (202-207, 267-272)
Cleanup(r) ==
    /\ ppc[r] = "finally"
    /\ disk' = Removed(Removed(disk, TempPath(UploadOf(request[r].form, 1))), TempPath(UploadOf(request[r].form, 2)))
    /\ ppc' = [ppc EXCEPT ![r] = IF pending[r].raised THEN "raised" ELSE "returned"]
    /\ UNCHANGED <<arrived, request, pending, responses, temp_dirs, last_output>>
    /\ UNCHANGED exceptApp

\* faulty variant: an empty result leaves the earlier result in place
IndexStoresResultKeeping(r) ==
    /\ request[r] # <<>>
    /\ request[r].kind = "index"
    /\ ppc[r] = "returned"
    /\ last_output' = IF pending[r].value # <<>> THEN <<pending[r].value>> ELSE last_output
    /\ responses' = [responses EXCEPT ![r] = [kind |-> "index", status |-> "ok", data |-> pending[r].value, message |-> <<>>]]
    /\ ppc' = [ppc EXCEPT ![r] = "done"]
    /\ request' = [request EXCEPT ![r] = <<>>]
    /\ pending' = [pending EXCEPT ![r] = <<>>]
    /\ UNCHANGED <<arrived, disk, temp_dirs>>
    /\ UNCHANGED exceptApp

\* app.py 40-41, 46-54
IndexStoresResult(r) ==
    /\ request[r] # <<>>
    /\ request[r].kind = "index"
    /\ ppc[r] = "returned"
    /\ last_output' = IF pending[r].value # <<>> THEN <<pending[r].value>> ELSE <<>>
    /\ responses' = [responses EXCEPT ![r] = [kind |-> "index", status |-> "ok", data |-> pending[r].value, message |-> <<>>]]
    /\ ppc' = [ppc EXCEPT ![r] = "done"]
    /\ request' = [request EXCEPT ![r] = <<>>]
    /\ pending' = [pending EXCEPT ![r] = <<>>]
    /\ UNCHANGED <<arrived, disk, temp_dirs>>
    /\ UNCHANGED exceptApp

\* faulty variant: a failed POST discards the earlier result
IndexCatchesClearing(r) ==
    /\ request[r] # <<>>
    /\ request[r].kind = "index"
    /\ ppc[r] = "raised"
    /\ last_output' = <<>>
    /\ responses' = [responses EXCEPT ![r] = [kind |-> "index", status |-> "error", data |-> <<>>, message |-> <<"Error processing files: {}", pending[r].message>>]]
    /\ ppc' = [ppc EXCEPT ![r] = "done"]
    /\ request' = [request EXCEPT ![r] = <<>>]
    /\ pending' = [pending EXCEPT ![r] = <<>>]
    /\ UNCHANGED <<arrived, disk, temp_dirs>>
    /\ UNCHANGED exceptApp

\* app.py 43-44, 46-54
IndexCatches(r) ==
    /\ request[r] # <<>>
    /\ request[r].kind = "index"
    /\ ppc[r] = "raised"
    /\ responses' = [responses EXCEPT ![r] = [kind |-> "index", status |-> "error", data |-> <<>>, message |-> <<"Error processing files: {}", pending[r].message>>]]
    /\ ppc' = [ppc EXCEPT ![r] = "done"]
    /\ request' = [request EXCEPT ![r] = <<>>]
    /\ pending' = [pending EXCEPT ![r] = <<>>]
    /\ UNCHANGED <<arrived, disk, temp_dirs, last_output>>
    /\ UNCHANGED exceptApp

\* processors.py 107-127: process returns to or raises in its caller
ProcessEnds(r) ==
    /\ request[r] # <<>>
    /\ request[r].kind = "process"
    /\ ppc[r] \in {"returned", "raised"}
    /\ responses' = [responses EXCEPT ![r] = [kind |-> "process", status |-> IF pending[r].raised THEN "error" ELSE "ok",
                                       data |-> pending[r].value, message |-> pending[r].message]]
    /\ ppc' = [ppc EXCEPT ![r] = "done"]
    /\ request' = [request EXCEPT ![r] = <<>>]
    /\ pending' = [pending EXCEPT ![r] = <<>>]
    /\ UNCHANGED <<arrived, disk, temp_dirs, last_output>>
    /\ UNCHANGED exceptApp

\* app.py 100-103
DownloadServes(r) ==
    /\ ppc[r] = "download"
    /\ last_output # <<>>
    /\ disk' = Written(disk, <<"r", "e", "c", "o", "n", "c", "i", "l", "i", "a", "t", "i", "o", "n", "_", "o", "u", "t", "p", "u", "t", ".", "x", "l", "s", "x">>, last_output[1][1].rows_of, "output")
    /\ responses' = [responses EXCEPT ![r] = [kind |-> "download", status |-> "served", data |-> last_output[1], message |-> <<>>]]
    /\ ppc' = [ppc EXCEPT ![r] = "done"]
    /\ request' = [request EXCEPT ![r] = <<>>]
    /\ UNCHANGED <<arrived, pending, temp_dirs, last_output>>
    /\ UNCHANGED exceptApp

\* app.py 100, 104
DownloadNotFound(r) ==
    /\ ppc[r] = "download"
    /\ last_output = <<>>
    /\ responses' = [responses EXCEPT ![r] = [kind |-> "download", status |-> "404", data |-> <<>>, message |-> <<"No reconciliation results available to download.">>]]
    /\ ppc' = [ppc EXCEPT ![r] = "done"]
    /\ request' = [request EXCEPT ![r] = <<>>]
    /\ UNCHANGED <<arrived, pending, disk, temp_dirs, last_output>>
    /\ UNCHANGED exceptApp

\* app.py 67-68: tempfile.mkdtemp gives a directory of its own
RatesStart(r) ==
    /\ ppc[r] = "rates"
    /\ temp_dirs' = temp_dirs \cup {[owner |-> r, staged |-> {}]}
    /\ ppc' = [ppc EXCEPT ![r] = "rates try"]
    /\ UNCHANGED <<arrived, request, pending, responses, disk, last_output>>
    /\ UNCHANGED exceptApp

\* app.py 70-72
RatesSummaryMissing(r) ==
    /\ ppc[r] = "rates try"
    /\ NoFile(DictGet(request[r].form.files, "summary_file", <<>>))
    /\ pending' = [pending EXCEPT ![r] = [raised |-> TRUE, value |-> <<>>, message |-> <<"Summary file is required.">>]]
    /\ ppc' = [ppc EXCEPT ![r] = "rates finally"]
    /\ UNCHANGED <<arrived, request, responses, disk, temp_dirs, last_output>>
    /\ UNCHANGED exceptApp

\* app.py 74, rate_tool_integration.py 41-42
RatesNotAllowed(r) ==
    /\ ppc[r] = "rates try"
    /\ ~NoFile(DictGet(request[r].form.files, "summary_file", <<>>))
    /\ ~allowed_file(DictGet(request[r].form.files, "summary_file", <<>>).filename)
    /\ pending' = [pending EXCEPT ![r] = [raised |-> TRUE, value |-> <<>>, message |-> <<"Only Excel files (.xls, .xlsx) are supported.">>]]
    /\ ppc' = [ppc EXCEPT ![r] = "rates finally"]
    /\ UNCHANGED <<arrived, request, responses, disk, temp_dirs, last_output>>
    /\ UNCHANGED exceptApp

\* app.py 74-88: the uploads are staged in the directory and analysed
RatesAnalysed(r) ==
    /\ ppc[r] = "rates try"
    /\ ~NoFile(DictGet(request[r].form.files, "summary_file", <<>>))
    /\ allowed_file(DictGet(request[r].form.files, "summary_file", <<>>).filename)
    /\ temp_dirs' = {d \in temp_dirs : d.owner # r} \cup {[owner |-> r, staged |-> {DictGet(request[r].form.files, "summary_file", <<>>).filename}]}
    /\ pending' = [pending EXCEPT ![r] = [raised |-> FALSE, value |-> <<[report_of |-> r]>>, message |-> <<>>]]
    /\ ppc' = [ppc EXCEPT ![r] = "rates finally"]
    /\ UNCHANGED <<arrived, request, responses, disk, last_output>>
    /\ UNCHANGED exceptApp

\* app.py 89-94
RatesCleanup(r) ==
    /\ ppc[r] = "rates finally"
    /\ temp_dirs' = {d \in temp_dirs : d.owner # r}
    /\ responses' = [responses EXCEPT ![r] = [kind |-> "rates", status |-> IF pending[r].raised THEN "error" ELSE "ok",
                                       data |-> pending[r].value, message |-> pending[r].message]]
    /\ ppc' = [ppc EXCEPT ![r] = "done"]
    /\ request' = [request EXCEPT ![r] = <<>>]
    /\ pending' = [pending EXCEPT ![r] = <<>>]
    /\ UNCHANGED <<arrived, disk, last_output>>
    /\ UNCHANGED exceptApp

NextApp ==
    \/ \E r \in Ids : Arrive(r)
    \/ \E r \in Ids : IndexInvalidType(r)
    \/ \E r \in Ids : IndexCallsProcess(r)
    \/ \E r \in Ids : ProcessUnknownType(r)
    \/ \E r \in Ids : ProcessInvalidFiles(r)
    \/ \E r \in Ids : ProcessDispatch(r)
    \/ \E r \in Ids : SaveFirst(r)
    \/ \E r \in Ids : SaveFirstRaises(r)
    \/ \E r \in Ids : SaveSecond(r)
    \/ \E r \in Ids : SaveSecondRaises(r)
    \/ \E r \in Ids : WorkReturns(r)
    \/ \E r \in Ids : WorkRaises(r)
    \/ \E r \in Ids : Cleanup(r)
    \/ \E r \in Ids : IndexStoresResult(r)
    \/ \E r \in Ids : IndexCatches(r)
    \/ \E r \in Ids : ProcessEnds(r)
    \/ \E r \in Ids : DownloadServes(r)
    \/ \E r \in Ids : DownloadNotFound(r)
    \/ \E r \in Ids : RatesStart(r)
    \/ \E r \in Ids : RatesSummaryMissing(r)
    \/ \E r \in Ids : RatesNotAllowed(r)
    \/ \E r \in Ids : RatesAnalysed(r)
    \/ \E r \in Ids : RatesCleanup(r)

SpecApp == InitApp /\ [][NextApp]_vars

NextParallel ==
    \/ \E r \in Ids : ArriveInParallel(r)
    \/ \E r \in Ids : IndexInvalidType(r)
    \/ \E r \in Ids : IndexCallsProcess(r)
    \/ \E r \in Ids : ProcessUnknownType(r)
    \/ \E r \in Ids : ProcessInvalidFiles(r)
    \/ \E r \in Ids : ProcessDispatch(r)
    \/ \E r \in Ids : SaveFirst(r)
    \/ \E r \in Ids : SaveFirstRaises(r)
    \/ \E r \in Ids : SaveSecond(r)
    \/ \E r \in Ids : SaveSecondRaises(r)
    \/ \E r \in Ids : WorkReturns(r)
    \/ \E r \in Ids : WorkRaises(r)
    \/ \E r \in Ids : Cleanup(r)
    \/ \E r \in Ids : IndexStoresResult(r)
    \/ \E r \in Ids : IndexCatches(r)
    \/ \E r \in Ids : ProcessEnds(r)
    \/ \E r \in Ids : DownloadServes(r)
    \/ \E r \in Ids : DownloadNotFound(r)
    \/ \E r \in Ids : RatesStart(r)
    \/ \E r \in Ids : RatesSummaryMissing(r)
    \/ \E r \in Ids : RatesNotAllowed(r)
    \/ \E r \in Ids : RatesAnalysed(r)
    \/ \E r \in Ids : RatesCleanup(r)

SpecParallel == InitApp /\ [][NextParallel]_vars

(******************************* reconcile: claims *************************)

Canonical == {Interchange, Reimbursement, VisaCharges, Total}

\* the two inputs of reconcile, as process_bank_vs_visa passes them
BankArg == extract_values(bank_in)
VisaArg == visa_in

RecordsAt(section, field) ==
    {i \in DOMAIN records :
        records[i]["Section"] = section /\ records[i]["Check"] = field}

FieldSet == {Fields[i] : i \in DOMAIN Fields}

\* C1: reconcile emits exactly one row for every (section, field) with the
\* section in the union of the normalized keys of the two inputs and the
\* field in {DR, CR, Net}, and no other row; a section present on one side
\* only has 0.0 for the three values of the other side.
C1_OneRowPerPair ==
    rpc = "done" =>
        LET bank == normalize_sections(BankArg)
            visa == normalize_sections(VisaArg)
            keys == DictKeys(bank) \cup DictKeys(visa)
        IN  /\ Len(records) = 3 * Cardinality(keys)
            /\ \A s \in keys : \A f \in FieldSet :
                   Cardinality(RecordsAt(s, f)) = 1
            /\ \A i \in DOMAIN records :
                   /\ records[i]["Section"] \in keys
                   /\ records[i]["Check"] \in FieldSet
                   /\ records[i]["Section"] \notin DictKeys(visa)
                         => records[i]["Visa Summary"] = F(0)
                   /\ records[i]["Section"] \notin DictKeys(bank)
                         => records[i]["Bank Statement"] = F(0)

C1_Witness ==
    /\ rpc = "done"
    /\ \E i, j \in DOMAIN records :
          /\ records[i]["Section"] \notin DictKeys(visa_data)
          /\ records[j]["Section"] \notin DictKeys(bank_data)

\* C2: in every row Difference is the bank value minus the visa value, and
\* Status is Match exactly when the two values are equal, which is exactly
\* when Difference is 0; otherwise Status is Mismatch.
C2_DifferenceAndStatus ==
    \A i \in DOMAIN records :
        LET r == records[i]
            bank_val == DictGet(bank_data, r["Section"], ZeroEntry)[r["Check"]]
            visa_val == DictGet(visa_data, r["Section"], ZeroEntry)[r["Check"]]
        IN  /\ r["Bank Statement"] = bank_val
            /\ r["Visa Summary"] = visa_val
            /\ r["Difference"] =
                   (IF bank_val.nan \/ visa_val.nan THEN NaN
                    ELSE F(bank_val.v - visa_val.v))
            /\ r["Status"] \in {"Match", "Mismatch"}
            /\ r["Status"] = "Match" <=>
                   (~bank_val.nan /\ ~visa_val.nan /\ bank_val.v = visa_val.v)
            /\ r["Status"] = "Match" <=> r["Difference"] = F(0)

C2_Witness ==
    /\ rpc = "done"
    /\ \E i, j, k \in DOMAIN records :
          /\ records[i]["Status"] = "Match"
          /\ records[i]["Bank Statement"] # F(0)
          /\ records[j]["Status"] = "Mismatch"
          /\ records[j]["Difference"] = F(-1)
          /\ records[k]["Status"] = "Mismatch"
          /\ records[k]["Difference"] = NaN

FNeg(a) == IF a.nan THEN NaN ELSE F(0 - a.v)

Swapped(r) ==
    ("Section" :> r["Section"]) @@ ("Check" :> r["Check"]) @@
    ("Bank Statement" :> r["Visa Summary"]) @@
    ("Visa Summary" :> r["Bank Statement"]) @@
    ("Status" :> r["Status"]) @@
    ("Difference" :> FNeg(r["Difference"]))

\* the rows of reconcile(left, right), whatever their order
ReconcileRows(left, right) ==
    LET l == normalize_sections(left)
        r == normalize_sections(right)
    IN  UNION { {SectionRecords(s, l, r)[i] : i \in DOMAIN Fields} :
                    s \in DictKeys(l) \cup DictKeys(r) }

\* C3: the rows of reconcile(B, A) are the rows of reconcile(A, B) with the
\* two values swapped, Difference negated and Status unchanged.
C3_Symmetric ==
    rpc = "done" =>
        ReconcileRows(VisaArg, BankArg) =
            {Swapped(records[i]) : i \in DOMAIN records}

C3_Witness ==
    /\ rpc = "done"
    /\ \E i \in DOMAIN records :
          /\ records[i]["Status"] = "Mismatch"
          /\ ~records[i]["Difference"].nan
          /\ records[i]["Bank Statement"] # F(0)
          /\ records[i]["Visa Summary"] # F(0)

\* C4: two runs of reconcile on the same two inputs return the rows in the
\* same order.
C4_StableOrder ==
    (rpc = "done" /\ runs = 2) => records = prev_records

\* C5 as claimed: every Section of a reconcile row is a canonical section.
C5_OnlyCanonical ==
    \A i \in DOMAIN records : records[i]["Section"] \in Canonical

BankRowLabels == {RowLabel(bank_in[i].label) : i \in DOMAIN bank_in}

\* C5 as amended: every section of the settlement report side is canonical;
\* a row label of the bank sheet that SECTION_MAP does not know is kept by
\* extract_values and normalize_sections and is the Section of three rows.
C5_TextSideCanonical ==
    rpc = "done" =>
        /\ DictKeys(visa_data) \subseteq Canonical
        /\ \A i \in DOMAIN records :
               \/ records[i]["Section"] \in Canonical
               \/ /\ records[i]["Section"] \in BankRowLabels
                  /\ records[i]["Section"] \notin DictKeys(visa_data)
        /\ \A l \in BankRowLabels :
               \A f \in FieldSet :
                  \/ Cardinality(RecordsAt(l, f)) = 1
                  \/ \E e \in DOMAIN SECTION_MAP :
                        /\ SECTION_MAP[e][1] = remove(upper(l), <<" ">>)
                        /\ Cardinality(RecordsAt(SECTION_MAP[e][2], f)) = 1

C5_Witness ==
    /\ rpc = "done"
    /\ \E i \in DOMAIN records : records[i]["Section"] \notin Canonical


(**************************** text report: claims ***************************)

Example_1540000_DB ==
    <<"1", ",", "5", "4", "0", ",", "0", "0", "0", ".", "0", "0", "D", "B">>
Example_1500_CR == <<"1", ",", "5", "0", "0", ".", "0", "0", "C", "R">>
Example_abc == <<"a", "b", "c">>

\* C6: parse_amount never raises; it returns 0.0 for an empty, blank or
\* unparsable token and otherwise the number without its thousands
\* separators, negated under a CR suffix and as it stands under a DB suffix
\* or none ("1,540,000.00DB" gives 1540000.00, "1,500.00CR" gives -1500.00).
C6_ParseAmount ==
    /\ apc # "raised"
    /\ apc = "returned" =>
         LET token == strip(remove(value, <<",">>))
             suffixed == endswith(token, CR) \/ endswith(token, DB)
             number == PyFloat(IF suffixed
                               THEN SubSeq(token, 1, Len(token) - 2)
                               ELSE token)
         IN  /\ ~amount.raised
             /\ (\A i \in DOMAIN value : value[i] = " ") => amount.ret = 0
             /\ ~number.ok => amount.ret = 0
             /\ (number.ok /\ endswith(token, CR)) => amount.ret = 0 - number.v
             /\ (number.ok /\ ~endswith(token, CR)) => amount.ret = number.v
             /\ value = Example_1540000_DB => amount.ret = 154000000
             /\ value = Example_1500_CR => amount.ret = 0 - 150000
             /\ value = <<>> => amount.ret = 0
             /\ value = Example_abc => amount.ret = 0

C6_Witness ==
    /\ apc = "returned"
    /\ endswith(value, CR)
    /\ Len(value) <= MaxTokenLen
    /\ amount.ret < 0

\* the line read last, as the loop body sees it
Stripped == strip(line)

LineAccepted ==
    /\ nread >= 1
    /\ Stripped # <<>>
    /\ section_name(Stripped) \in valid_sections
    /\ findall(Stripped, 1) # <<>>

Line_Interchange_2 ==
    <<"I", "N", "T", "E", "R", "C", "H", "A", "N", "G", "E", " ", "1", ".", "0",
      "0", " ", "2", ".", "5", "0", "C", "R">>

\* C7: an accepted line records its first amount as CR, its second as DR and
\* its third as Net; with fewer than three amounts Net is DR - CR, and with
\* one amount DR is 0.0.
C7_PositionalAmounts ==
    LineAccepted =>
        LET numbers == findall(Stripped, 1)
            entry == DictGet(data, section_name(Stripped), ZeroEntry)
        IN  /\ section_name(Stripped) \in DictKeys(data)
            /\ entry["CR"] = parse_amount(numbers[1]).ret
            /\ Len(numbers) >= 2 => entry["DR"] = parse_amount(numbers[2]).ret
            /\ Len(numbers) >= 3 => entry["Net"] = parse_amount(numbers[3]).ret
            /\ Len(numbers) < 3 => entry["Net"] = entry["DR"] - entry["CR"]
            /\ Len(numbers) = 1 => entry["DR"] = 0
            /\ line = Line_Interchange_2 =>
                  entry = Entry(0 - 250, 100, 0 - 350)

C7_Witness ==
    /\ LineAccepted
    /\ Len(findall(Stripped, 1)) = 2
    /\ DictGet(data, section_name(Stripped), ZeroEntry)["Net"] = 0 - 350

\* C8: every key of the map of extract_from_txt is a valid section; a line
\* whose canonicalized label is not one adds no entry, whatever its numbers.
C8_ValidKeysOnly ==
    /\ DictKeys(data) \subseteq valid_sections
    /\ (nread = 1 /\ section_name(Stripped) \notin valid_sections) => data = <<>>

C8_Witness ==
    /\ nread = 2
    /\ Stripped # <<>>
    /\ section_name(Stripped) \notin valid_sections
    /\ findall(Stripped, 1) # <<>>
    /\ data # <<>>


(***************************** processors: claims ***************************)

\* every token of the profile is a substring of some cell of the row, the
\* cells stripped and lowercased
Satisfies(row, profile) ==
    \A p \in DOMAIN profile :
        \E c \in DOMAIN row : contains(lower(strip(row[c])), profile[p])

Profile ==
    IF detection_type = "transaction_excel"
    THEN << <<"t", "r", "a", "n", "s", "a", "c", "t">>, <<"r", "r", "n">> >>
    ELSE IF detection_type = "bank_excel"
    THEN << <<"d", "r">>, <<"c", "r">>, <<"n", "e", "t">> >>
    ELSE <<>>

\* C9: header detection returns with the first row, from the top, that
\* satisfies every token of the profile, and raises when no row does.
C9_FirstSatisfyingRow ==
    /\ hpc = "returned" =>
          /\ Len(header_row) = 1
          /\ header_row[1] \in 0..(Len(grid) - 1)
          /\ Satisfies(grid[header_row[1] + 1], Profile)
          /\ \A j \in 1..header_row[1] : ~Satisfies(grid[j], Profile)
    /\ hpc = "ValueError" =>
          \A j \in DOMAIN grid : ~Satisfies(grid[j], Profile)

C9_Witness ==
    /\ hpc = "returned"
    /\ detection_type = "transaction_excel"
    /\ header_row = <<2>>
    /\ \E c \in DOMAIN grid[1] : contains(lower(strip(grid[1][c])), Profile[1])

\* the rules, by position, with a pattern in the cleaned label
RulesFor(label) ==
    LET cleaned == remove(remove(lower(strip(label)), <<" ">>), <<"_">>)
    IN  {r \in DOMAIN COLUMN_MAPPINGS :
            \E p \in DOMAIN COLUMN_MAPPINGS[r].patterns :
                contains(cleaned, COLUMN_MAPPINGS[r].patterns[p])}

\* C10: every label is renamed, on its own, to the target of the first rule
\* of the table with a pattern that is a substring of the label stripped,
\* lowercased and without spaces and underscores; a label no rule matches
\* keeps its name.
C10_FirstRuleWins ==
    cpc = "returned" =>
        /\ Len(renamed) = Len(columns)
        /\ \A i \in DOMAIN columns :
              LET rules == RulesFor(columns[i])
              IN  IF rules = {}
                  THEN renamed[i] = columns[i]
                  ELSE renamed[i] =
                         COLUMN_MAPPINGS[CHOOSE r \in rules :
                                             \A q \in rules : r <= q].target

C10_Witness ==
    /\ cpc = "returned"
    /\ \E i, j \in DOMAIN columns :
          /\ Cardinality(RulesFor(columns[i])) >= 2
          /\ RulesFor(columns[j]) = {}
          /\ renamed[j] = columns[j]

CanonicalNames == {COLUMN_MAPPINGS[r].target : r \in DOMAIN COLUMN_MAPPINGS}

\* C11: normalize_columns maps each of the nine canonical names to itself,
\* and applied to the labels it returned it returns them unchanged.
C11_Idempotent ==
    cpc = "returned" =>
        /\ \A i \in DOMAIN columns :
               columns[i] \in CanonicalNames => renamed[i] = columns[i]
        /\ passes = 2 => renamed = normalized_once

C11_Witness ==
    /\ cpc = "returned"
    /\ passes = 2
    /\ \E i \in DOMAIN columns :
          /\ columns[i] \in DictKeys(col_map)
          /\ renamed[i] = columns[i]
    /\ \E i \in DOMAIN columns : renamed[i] \notin CanonicalNames


(************************* fee calculator: claims ***************************)

\* the tests of the fee formula classification, in the order of the contract
FormulaTest(k) ==
    LET f == strip_whitespace(rate_formula)
        l == lower(f)
    IN  CASE k = 1 -> contains(l, <<"f", "i", "r", "s", "t">>) /\ contains(l, <<"t", "h", "e", "r", "e", "a", "f", "t", "e", "r">>)
          [] k = 2 -> contains(l, <<"p", "e", "r", " ", "t", "r", "a", "n", "s", "a", "c", "t", "i", "o", "n">>)
          [] k = 3 -> contains(l, <<"p", "e", "r", " ", "d", "i", "s", "p", "u", "t", "e">>)
          [] k = 4 -> contains(l, <<"n", "o", " ", "o", "f", " ", "t", "r", "a", "n">>) /\ \E i \in DOMAIN f : f[i] = "$"
          [] k = 5 -> contains(l, <<"a", "m", "o", "u", "n", "t", " ", "o", "f", " ", "t", "r", "a", "n">>) \/ contains(l, <<"a", "m", "o", "u", "t", " ", "o", "f", " ", "t", "r", "a", "n">>)
          [] k = 6 -> f # <<>> /\ \A i \in DOMAIN f : f[i] \in Digits
          [] OTHER -> TRUE

\* the first test that holds: 7 when none of the six does
FirstTest == CHOOSE k \in 1..7 : FormulaTest(k) /\ \A j \in 1..(k - 1) : ~FormulaTest(j)

Method == fee_result.calculation_method[1]

\* C12: the trimmed formula is handled by the calculator of the first test
\* that holds, in the order tiered, per transaction, per dispute, no of tran
\* with $, amount of tran, only digits, and by none of the later ones; a
\* formula of digits gives that number as a fixed amount in "$", and a
\* formula that passes no test gives Unknown.
C12_FirstTestWins ==
    fpc = "returned" =>
        LET f == strip_whitespace(rate_formula)
        IN  /\ FirstTest = 1 => fee_result = calculate_tiered_card_fee(f, card_count)
            /\ FirstTest = 2 =>
                   fee_result = calculate_per_transaction_fee(f, transaction_count)
            /\ FirstTest = 3 =>
                   fee_result = calculate_per_dispute_fee(f, transaction_count)
            /\ FirstTest = 4 =>
                   fee_result = calculate_transaction_volume_fee(f, transaction_count)
            /\ FirstTest = 5 =>
                   fee_result = calculate_transaction_amount_fee(f, transaction_amount)
            /\ FirstTest = 6 =>
                   /\ Method = "Fixed Amount"
                   /\ fee_result.calculated_amount = 100 * IntVal(f)
                   /\ fee_result.currency = "$"
            /\ FirstTest = 7 =>
                   /\ Method = "Unknown Formula"
                   /\ fee_result.calculated_amount = 0

C12_Witness ==
    /\ fpc = "returned"
    /\ FormulaTest(2)
    /\ FormulaTest(3)
    /\ Method = "{} transactions x {}{}"

Formula_Tiered_30K == <<"$", "2", " ", "f", "o", "r", " ", "f", "i", "r", "s", "t", " ", "3", "0", "K", " ", "c", "a", "r", "d", "s", "\n", "$", "1", ".", "5", " ", "p", "e", "r", " ", "c", "a", "r", "d", " ", "t", "h", "e", "r", "e", "a", "f", "t", "e", "r">>

\* the rates and the threshold of a tiered formula, in hundredths and cards
FirstRate == NumberValue(search_number(strip_whitespace(rate_formula))[1])

Threshold ==
    1000 * IntVal(search_threshold(lower(strip_whitespace(rate_formula)))[1])

SecondRate ==
    LET f == strip_whitespace(rate_formula)
        breaks == {i \in DOMAIN f : f[i] = "\n"}
        b == CHOOSE i \in breaks : \A j \in breaks : i <= j
        rest == SubSeq(f, b + 1, Len(f))
        later == {i \in DOMAIN rest : rest[i] = "\n"}
        second == IF later = {} THEN rest
                  ELSE SubSeq(rest, 1, (CHOOSE i \in later : \A j \in later : i <= j) - 1)
    IN  IF breaks = {} \/ search_number(second) = <<>> THEN 0
        ELSE NumberValue(search_number(second)[1])

TieredComputable ==
    /\ FormulaTest(1)
    /\ card_count.num
    /\ search_number(strip_whitespace(rate_formula)) # <<>>
    /\ search_threshold(lower(strip_whitespace(rate_formula))) # <<>>

Formula_Rs_025 == <<"R", "s", " ", "0", ".", "2", "5", " ", "p", "e", "r", " ", "t", "r", "a", "n", "s", "a", "c", "t", "i", "o", "n">>

\* C14: a per transaction or per dispute formula gives transactionCount
\* times the first number of the formula, in "Rs" if the lowercased formula
\* contains "rs" and in "$" otherwise ("Rs 0.25 per transaction" with 1000
\* transactions gives 250.0 in "Rs").
C14_PerUnit ==
    (/\ fpc = "returned"
     /\ FirstTest \in {2, 3}
     /\ transaction_count.num
     /\ search_number(strip_whitespace(rate_formula)) # <<>>) =>
        /\ fee_result.calculated_amount = transaction_count.v * FirstRate
        /\ fee_result.currency =
               (IF contains(lower(rate_formula), <<"r", "s">>) THEN "Rs" ELSE "$")
        /\ (rate_formula = Formula_Rs_025 /\ transaction_count.v = 1000) =>
               (fee_result.calculated_amount = 25000 /\ fee_result.currency = "Rs")

C14_Witness ==
    /\ fpc = "returned"
    /\ rate_formula = Formula_Rs_025
    /\ transaction_count = Num(1000)
    /\ fee_result.calculated_amount = 25000

\* the number the branch of the formula needs cannot be extracted, or the
\* count it is multiplied with is no number
NotComputable ==
    LET f == strip_whitespace(rate_formula)
    IN  \/ FirstTest = 1 /\ (search_number(f) = <<>>
                             \/ search_threshold(lower(f)) = <<>>
                             \/ ~card_count.num)
        \/ FirstTest \in {2, 3, 4} /\ (search_number(f) = <<>> \/ ~transaction_count.num)
        \/ FirstTest = 5 /\ (search_number(f) = <<>> \/ ~transaction_amount.num)

\* C15: every call of calculate_fee_amount returns a record, whatever the
\* formula and the counts; when the formula passes no test, or the number
\* its branch needs cannot be extracted, or the count is no number, the
\* record is an Unknown or Error outcome with amount 0.
C15_AlwaysReturns ==
    /\ ~calculate_fee_amount(rate_formula, card_count, transaction_count,
                             transaction_amount).raised
    /\ fpc = "returned" =>
          /\ fee_result = calculate_fee_amount(rate_formula, card_count,
                                               transaction_count,
                                               transaction_amount).ret
          /\ {"calculated_amount", "calculation_method", "formula_used"}
                 \subseteq DOMAIN fee_result
          /\ (FirstTest = 7 \/ NotComputable) =>
                 /\ Method \in {"Unknown Formula", "Error", "Error in tiered calculation"}
                 /\ fee_result.calculated_amount = 0

C15_Witness ==
    /\ fpc = "returned"
    /\ FirstTest = 2
    /\ search_number(rate_formula) # <<>>
    /\ ~transaction_count.num
    /\ Method = "Error"

\* C16 as claimed: every record returned carries a currency, "$" or "Rs".
C16_CurrencyOnEveryPath ==
    fpc = "returned" =>
        /\ "currency" \in DOMAIN fee_result
        /\ fee_result.currency \in {"$", "Rs"}

\* C16 as amended: a record of a calculation that succeeded carries the
\* currency "$" or "Rs"; an Unknown or Error record carries no currency.
C16_CurrencyOnSuccess ==
    fpc = "returned" =>
        IF Method \in {"Unknown Formula", "Error", "Error in tiered calculation"}
        THEN "currency" \notin DOMAIN fee_result
        ELSE "currency" \in DOMAIN fee_result /\ fee_result.currency \in {"$", "Rs"}

C16_Witness ==
    /\ fpc = "returned"
    /\ FirstTest = 2
    /\ Method = "Error"
    /\ "currency" \notin DOMAIN fee_result


(**************************** fee matcher: claims ***************************)

\* C17: no two distinct calculated labels are mapped to the same invoice
\* label, whichever phase made the matches
C17_AtMostOneMatch ==
    \A i, j \in DOMAIN matches : i # j => matches[i][2] # matches[j][2]

\* shared tokens / all tokens of the two normalized labels, as the pair
\* <<shared, all>>; <<0, 1>> when a label has no token left
Jaccard(calc_fee, invoice_fee) ==
    LET calc_words == WordSet(normalize_fee_name(calc_fee))
        invoice_words == WordSet(normalize_fee_name(invoice_fee))
    IN  IF calc_words = {} \/ invoice_words = {} THEN <<0, 1>>
        ELSE <<Cardinality(calc_words \cap invoice_words),
               Cardinality(calc_words \cup invoice_words)>>

\* the matches made before the k-th label of unmatched_calc had its turn
MatchesBefore(k) ==
    SelectSeq(matches, LAMBDA e : \A j \in k..Len(unmatched_calc) : e[1] # unmatched_calc[j])

\* the invoice labels no match had consumed at that moment
StillUnmatched(k) == not_in_values(invoice_fees, MatchesBefore(k))

\* the places of the candidate that scores above 0.3, that no candidate
\* outscores, and that is listed before any candidate of equal score
Best(calc_fee, candidates) ==
    {i \in DOMAIN candidates :
        /\ ScoreAbove(Jaccard(calc_fee, candidates[i]), MatchThreshold)
        /\ \A j \in DOMAIN candidates :
               ~ScoreAbove(Jaccard(calc_fee, candidates[j]), Jaccard(calc_fee, candidates[i]))
        /\ \A j \in 1..(i - 1) :
               ScoreAbove(Jaccard(calc_fee, candidates[i]), Jaccard(calc_fee, candidates[j]))}

\* C18: a calculated label the exact phase left unmatched is matched to the
\* still-unmatched invoice label of highest Jaccard score, the first listed
\* among equals, if that score is above 0.3, and stays unmatched otherwise
C18_BestStillUnmatched ==
    mpc \in {"partial", "returned"} =>
        \A k \in 1..mi :
            IF Best(unmatched_calc[k], StillUnmatched(k)) = {}
            THEN unmatched_calc[k] \notin DictKeys(matches)
            ELSE \E i \in Best(unmatched_calc[k], StillUnmatched(k)) :
                     \E e \in DOMAIN matches :
                         matches[e] = <<unmatched_calc[k], StillUnmatched(k)[i]>>

International_License_Fee == <<"I", "n", "t", "e", "r", "n", "a", "t", "i", "o", "n", "a", "l", " ", "L", "i", "c", "e", "n", "s", "e", " ", "F", "e", "e">>
Intl_License_Fees == <<"I", "n", "t", "l", " ", "L", "i", "c", "e", "n", "s", "e", " ", "F", "e", "e", "s">>
Card_Issuance_Fee == <<"C", "a", "r", "d", " ", "I", "s", "s", "u", "a", "n", "c", "e", " ", "F", "e", "e">>
Dispute_Handling_Charge == <<"D", "i", "s", "p", "u", "t", "e", " ", "H", "a", "n", "d", "l", "i", "n", "g", " ", "C", "h", "a", "r", "g", "e">>

Returned(calc, invoice) ==
    /\ mpc = "returned"
    /\ calculated_fees = calc
    /\ invoice_fees = invoice

\* C19 as stated: "International License Fee" is matched to "Intl License
\* Fees", and "Card Issuance Fee" is not matched to "Dispute Handling Charge"
C19_ExamplesAsStated ==
    /\ Returned(<<International_License_Fee>>, <<Intl_License_Fees>>)
           => matches = <<<<International_License_Fee, Intl_License_Fees>>>>
    /\ Returned(<<Card_Issuance_Fee>>, <<Dispute_Handling_Charge>>)
           => matches = <<>>

\* C19: neither pair is matched; "International License Fee" and "Intl
\* License Fees" share one token of four, a score of 0.25, which is not above 0.3
C19_ExamplesNoMatch ==
    /\ Returned(<<International_License_Fee>>, <<Intl_License_Fees>>)
           => /\ matches = <<>>
              /\ Jaccard(International_License_Fee, Intl_License_Fees) = <<1, 4>>
    /\ Returned(<<Card_Issuance_Fee>>, <<Dispute_Handling_Charge>>)
           => /\ matches = <<>>
              /\ Jaccard(Card_Issuance_Fee, Dispute_Handling_Charge) = <<0, 4>>

C19_Witness ==
    /\ Returned(<<International_License_Fee>>, <<Intl_License_Fees>>)
    /\ matches = <<>>
    /\ unmatched_calc = <<International_License_Fee>>
    /\ unmatched_invoice = <<Intl_License_Fees>>

(************************ build_result_context: claims **********************)

\* the rows of the calculated fees come first, one per entry of sheet_fees
CalculatedRowsOf(fee_type) ==
    {r \in DOMAIN unified_rows :
        r <= Len(sheet_fees) /\ unified_rows[r].fee_type = fee_type}

\* the rows added for invoice items
ExtraRowsOf(invoice_fee) ==
    {r \in DOMAIN unified_rows :
        r > Len(sheet_fees) /\ unified_rows[r].fee_type = invoice_fee}

\* the rows of calculated fees that carry the invoice item as their invoice amount
RowsTaking(invoice_fee) ==
    {r \in DOMAIN unified_rows :
        /\ r <= Len(sheet_fees)
        /\ DictGet(fee_matches, unified_rows[r].fee_type, <<>>) = invoice_fee}

\* C20: in the unified rows of a sheet every calculated fee has exactly one
\* row, with invoice amount "N/A" when it has no match, and every invoice
\* item is either the invoice amount of exactly one calculated fee's row or
\* has exactly one extra row marked "Missing", never both and never twice
C20_UnifiedRows ==
    (bpc = "done" /\ mappings # <<>>) =>
        /\ \A f \in DictKeys(mappings) : Cardinality(CalculatedRowsOf(f)) = 1
        /\ \A r \in DOMAIN unified_rows :
               (r <= Len(sheet_fees) /\ unified_rows[r].fee_type \notin DictKeys(fee_matches))
                   => unified_rows[r].visa_amount_display = <<"N/A">>
        /\ \A r \in DOMAIN unified_rows :
               r > Len(sheet_fees) => unified_rows[r].final_amount_display = <<"Missing">>
        /\ \A f \in DictKeys(invoice_data) :
               Cardinality(RowsTaking(f)) + Cardinality(ExtraRowsOf(f)) = 1

\* a percentage lies between 0 and 100
WithinHundred(p) == p.num >= 0 /\ p.num <= p.den

\* the matches of a presented sheet give no invoice item to two fees
OneToOne(sheet) ==
    LET m == FeeMatches(sheet.calculated_fees, invoice_data)
    IN  \A i, j \in DOMAIN m : i # j => m[i][2] # m[j][2]

\* C25: the matched items reported by build_result_context never exceed the
\* invoice items, the exact ones never exceed the matched ones, and both
\* percentages lie between 0 and 100, for every set of sheets
C25_MatchedWithinInvoice ==
    bpc = "returned" =>
        /\ statistics.matched_items <= statistics.total_visa_items
        /\ statistics.exact_match_items <= statistics.matched_items
        /\ WithinHundred(statistics.fee_reconciled_percentage)
        /\ WithinHundred(statistics.amount_match_percentage)

\* the part of C25 about the exact matches
C25_ExactWithinMatched ==
    bpc = "returned" =>
        /\ statistics.exact_match_items <= statistics.matched_items
        /\ WithinHundred(statistics.amount_match_percentage)

\* C25 for one sheet whose matches share no invoice item
C25_OneSheetOneToOne ==
    (/\ bpc = "returned"
     /\ Len(sheets_presentations) = 1
     /\ OneToOne(sheets_presentations[1]))
        => /\ statistics.matched_items <= statistics.total_visa_items
           /\ WithinHundred(statistics.fee_reconciled_percentage)

\* C25 for sheets whose matches share no invoice item within a sheet
C25_SheetsOneToOne ==
    (/\ bpc = "returned"
     /\ \A s \in DOMAIN sheets_presentations : OneToOne(sheets_presentations[s]))
        => /\ statistics.matched_items <= statistics.total_visa_items
           /\ WithinHundred(statistics.fee_reconciled_percentage)

(********************************* app: claims ******************************)

\* the required files of the type of a form
RequiredFiles(form) == DictGet(RECONCILIATION_TYPES, form.recon_type, <<>>)

\* the positions of the required files the form lacks
MissingFiles(form) ==
    {k \in DOMAIN RequiredFiles(form) :
         \/ RequiredFiles(form)[k].field_name \notin DictKeys(form.files)
         \/ DictGet(form.files, RequiredFiles(form)[k].field_name,
                    Upload(<<>>, "rows")).filename = <<>>}

UnknownType(form) == form.recon_type \notin {"bank_vs_visa", "visa_vs_summary", "cms_vs_visa"}

\* the form does not pass validation
Invalid(form) == UnknownType(form) \/ MissingFiles(form) # {}

\* the ValueError process() is to raise for an invalid form
ExpectedValueError(form) ==
    IF UnknownType(form)
    THEN <<"Unknown reconciliation type: {}", form.recon_type>>
    ELSE <<"Please upload {}",
           RequiredFiles(form)[CHOOSE k \in MissingFiles(form) :
                                   \A j \in MissingFiles(form) : k <= j].label>>

\* the error message the caller of an invalid request gets
ExpectedMessage(req) ==
    IF req.kind = "process" THEN ExpectedValueError(req.form)
    ELSE IF UnknownType(req.form)
    THEN <<"Please select a valid reconciliation type.">>
    ELSE <<"Error processing files: {}", ExpectedValueError(req.form)>>

InvalidRequest(r) ==
    /\ request[r] # <<>>
    /\ request[r].kind \in {"index", "process"}
    /\ Invalid(request[r].form)

\* C28: while a request with an unknown type or a missing or empty-named
\* required file is served, no step changes the working directory or
\* last_output, and the request ends with the error that names the unknown
\* type or the first missing required file in configuration order
C28_ValidationFirst ==
    [][\A r \in Ids :
           InvalidRequest(r) =>
               /\ disk' = disk
               /\ last_output' = last_output
               /\ ppc'[r] \notin {"save first", "save second", "work", "finally", "returned"}
               /\ ppc'[r] = "done" =>
                      /\ responses'[r].status = "error"
                      /\ responses'[r].message = ExpectedMessage(request[r])]_vars

\* a POST that lacks its second required file was refused while an earlier
\* result was held
C28_Witness ==
    /\ last_output # <<>>
    /\ \E r \in Ids :
           /\ responses[r] # <<>>
           /\ responses[r].kind = "index"
           /\ responses[r].message =
                  <<"Error processing files: {}",
                    <<"Please upload {}", "VISA Settlement Summary (TXT)">> >>

\* the temp files of the processors
TempFiles == {f \in disk : f.path[1] = "temp_"}

\* the serving of request r is over, or its processor call has ended
Ended(r) == ppc[r] \in {"returned", "raised", "done"}

\* C29: when a processor call has ended, by returning or by raising, none of
\* the temp files it created exists, and when a /rates-file request has been
\* answered its temp directory does not exist
C29_TempFilesRemoved ==
    \A r \in Ids :
        Ended(r) =>
            /\ \A f \in TempFiles : f.owner # r
            /\ \A d \in temp_dirs : d.owner # r

\* the part of C29 the code keeps: the temp directory of /rates-file
C29_TempDirRemoved ==
    \A r \in Ids : Ended(r) => \A d \in temp_dirs : d.owner # r

\* the rows of a response were computed from the uploads of request r
OwnData(r, rows) ==
    \A i \in DOMAIN rows :
        IF "report_of" \in DOMAIN rows[i]
        THEN rows[i].report_of = r
        ELSE rows[i].rows_of = r /\ rows[i].compared_with = r

\* the reconciliation POSTs among the requests before r that were processed
\* without an error
PostsBefore(r) ==
    {q \in 1..(r - 1) :
         /\ responses[q] # <<>>
         /\ responses[q].kind = "index"
         /\ responses[q].status = "ok"}

\* the result of the most recent of them, <<>> when there is none
LatestResult(r) ==
    IF PostsBefore(r) = {} THEN <<>>
    ELSE responses[CHOOSE q \in PostsBefore(r) : \A p \in PostsBefore(r) : p <= q].data

AllAnswered == \A r \in Ids : ppc[r] \in {"none", "done"}

C30_DownloadServesLatest ==
    \A r \in Ids :
        (responses[r] # <<>> /\ responses[r].kind = "download") =>
            IF LatestResult(r) = <<>>
            THEN responses[r].status = "404"
            ELSE /\ responses[r].status = "served"
                 /\ responses[r].data = LatestResult(r)

\* a POST stored a result, the next POST failed, and the download after it
\* served the stored result
C30_Witness ==
    /\ arrived = 3
    /\ responses[3] # <<>>
    /\ responses[1].kind = "index"
    /\ responses[1].status = "ok"
    /\ responses[2].kind = "index"
    /\ responses[2].status = "error"
    /\ responses[3].kind = "download"
    /\ responses[3].status = "served"

\* C23: for two requests served in parallel, while one stands between
\* staging its uploads and removing them the two staged files are there and
\* are the ones it staged, and the result it returns was computed from its
\* own uploads
C23_NoSharedStagedFile ==
    \A r \in Ids :
        /\ ppc[r] \in {"work", "finally"} =>
               \A k \in 1..2 :
                   LET staged == FileAt(disk, TempPath(UploadOf(request[r].form, k)))
                   IN  staged # <<>> /\ staged[1].owner = r
        /\ (responses[r] # <<>> /\ responses[r].kind # "download")
               => OwnData(r, responses[r].data)

\* the part of C23 the code keeps: the temp directories of /rates-file are
\* not shared
C23_OwnTempDir ==
    \A c, d \in temp_dirs : c.owner = d.owner => c = d

(************************ process_visa_vs_summary: claims *******************)

\* the checks visa_vs_summary reports, in the order of the configured patterns
ConfiguredChecks ==
    <<<<"R", "e", "p", "o", "r", "t", " ", "D", "a", "t", "e">>, <<"T", "r", "a", "n", "s", "a", "c", "t", "i", "o", "n", " ", "C", "o", "u", "n", "t">>, <<"F", "e", "e", " ", "C", "r", "e", "d", "i", "t">>, <<"D", "e", "b", "i", "t", " ", "A", "m", "o", "u", "n", "t">>>>

\* C27: when process_visa_vs_summary returns, checks holds exactly one row per
\* configured text pattern (Report Date, Transaction Count, Fee Credit, Debit
\* Amount), and the row of Report Date has Status Mismatch whatever the summary
\* report and the detailed table hold
C27_OneRowPerPattern ==
    vpc = "returned" =>
        /\ [i \in DOMAIN checks |-> checks[i].Check] = ConfiguredChecks
        /\ \A i \in DOMAIN checks :
               checks[i].Check = <<"R", "e", "p", "o", "r", "t", " ", "D", "a", "t", "e">> => checks[i].Status = "Mismatch"

\* the summary report gives a date, and another check matches
C27_Witness ==
    /\ vpc = "returned"
    /\ DictGet(txt_data, <<"R", "e", "p", "o", "r", "t", " ", "D", "a", "t", "e">>, PyNone).t = "str"
    /\ \E i \in DOMAIN checks : checks[i].Status = "Match"

(**************************** normalize_sections: claims ********************)

\* the result key of an input key: SECTION_MAP[upper(k) without spaces], or k
ResultKey(k) ==
    LET squeezed == remove(upper(k), <<" ">>)
    IN  IF \E i \in DOMAIN SECTION_MAP : SECTION_MAP[i][1] = squeezed
        THEN SECTION_MAP[CHOOSE i \in DOMAIN SECTION_MAP :
                             SECTION_MAP[i][1] = squeezed][2]
        ELSE k

\* the last entry of the input whose key has the result key
LastUnder(input, key) ==
    CHOOSE i \in DOMAIN input :
        /\ ResultKey(input[i][1]) = key
        /\ \A j \in DOMAIN input : ResultKey(input[j][1]) = key => j <= i

\* output is what the claim says normalize_sections makes of input
NormalizedAsClaimed(input, output) ==
    /\ \A i, j \in DOMAIN output : i # j => output[i][1] # output[j][1]
    /\ {output[i][1] : i \in DOMAIN output}
           = {ResultKey(input[i][1]) : i \in DOMAIN input}
    /\ \A i \in DOMAIN output :
           output[i][2] = input[LastUnder(input, output[i][1])][2]

\* C26: what normalize_sections returns holds one entry per result key, the
\* result keys are SECTION_MAP[upper(k) without spaces] or k for the input
\* keys k, the entry under a key is that of the input key iterated last among
\* those with that result key, and normalizing the result again returns it
\* unchanged
C26_OnePerCanonicalSection ==
    /\ spc \in {"once", "twice"} =>
           NormalizedAsClaimed(section_data, normalized_data)
    /\ spc = "twice" => renormalized_data = normalized_data

\* two keys share a result key and carry different entries; the result was
\* normalized again
C26_Witness ==
    /\ spc = "twice"
    /\ Len(section_data) = 2
    /\ section_data[1][1] = S_TOTAL
    /\ section_data[2][1] = S_NETSETTLEMENT
    /\ section_data[1][2] # section_data[2][2]
    /\ Len(normalized_data) = 1

(*************************** extract_from_txt: total lines ******************)

\* the line just read is a total line that carries an amount
TotalLineRead ==
    /\ nread > 0
    /\ IsTotalLine(strip(line))
    /\ findall(strip(line), 1) # <<>>

\* the label the same line gets when its words are written in upper case
UpperCaseLabel == section_name(upper(strip(line)))

\* C24: a total line is recorded under the label left when TOTAL, AMOUNT and
\* VALUE are removed from its text, whatever the letter case of its words: a
\* total line written in lower case is recorded under the same section as
\* the line written in upper case
C24_TotalLineAnyCase ==
    (TotalLineRead /\ Accepted(UpperCaseLabel)) =>
        UpperCaseLabel \in DictKeys(data)

\* the part of C24 the code keeps: the examples as written, in upper case
C24_UpperCaseExamples ==
    TotalLineRead =>
        /\ startswith(strip(line), W_TOTAL \o <<" ">> \o S_INTERCHANGE \o <<" ">> \o W_VALUE)
               => S_INTERCHANGE \in DictKeys(data)
        /\ startswith(strip(line), NET_SETTLEMENT_AMOUNT)
               => S_NETSETTLEMENT \in DictKeys(data)
        /\ strip(BeforeNumbers(strip(line))) = W_TOTAL
               => S_TOTAL \in DictKeys(data)

(************************* run_rate_analysis: claims ************************)

\* the optional inputs of run_rate_analysis
OptionalInputs == {"card", "international", "domestic", "dispute"}

\* the warnings that speak of an input: the card warning of the card workbook,
\* the transaction warning of each of the three transaction workbooks
WarningsNaming(input) ==
    IF input = "card"
    THEN {"No card issuance data found or total cards is 0. Proceeding with fee rate mapping only."}
    ELSE {"No transaction data found."}

Warned(input) ==
    \E i \in DOMAIN report_context.warnings :
        report_context.warnings[i] \in WarningsNaming(input)

\* the bucket of an input in the returned context is zero-valued
ZeroValued(input) ==
    IF input = "card"
    THEN report_context.card_data = <<>>
    ELSE \/ report_context.transaction_data = <<>>
         \/ DictGet(report_context.transaction_data,
                    IF input = "dispute" THEN "disputes" ELSE input,
                    ZeroBucket) = ZeroBucket

\* C21: when run_rate_analysis has returned, every optional input that was not
\* supplied has a zero-valued bucket and a warning naming it among the
\* returned warnings
C21_MissingInputWarned ==
    npc = "returned" =>
        \A input \in OptionalInputs :
            ~file_paths[input] => ZeroValued(input) /\ Warned(input)

\* the part of C21 the code keeps: a missing input's bucket is zero-valued
C21_MissingInputZero ==
    npc = "returned" =>
        \A input \in OptionalInputs : ~file_paths[input] => ZeroValued(input)

====
